---- MODULE Spec2Model ----
(***************************************************************************)
(* APIgraveyard: the local JSON store (database module), the key tester    *)
(* (tester module) and their callers, as state machines.                   *)
(*                                                                         *)
(* The specifications of the module:                                       *)
(*   Spec          the store's exported operations, one action per call;   *)
(*   SpecWrite     writeDatabase and initDatabase step by step, with the   *)
(*                 process stopping at any step (crash safety, recovery);  *)
(*   SpecRace      the same steps with two processes interleaved;          *)
(*   SpecTest      testKeys, the service checkers and requestWithRetry     *)
(*                 step by step;                                           *)
(*   SpecTestFair  SpecTest where requests end and timers fire;            *)
(*   SpecScan      scanDirectory step by step: enumeration, the batches    *)
(*                 of concurrent file reads, deduplication;                *)
(*   SpecCmd       the scan command of the CLI, one action per awaited     *)
(*                 call: scanDirectory, isBanned, saveProject, testKeys,   *)
(*                 updateKeysStatus;                                       *)
(*   SpecClean     the clean command of the CLI, one action per awaited    *)
(*                 call;                                                   *)
(*   SpecMask      maskKey applied to keys of every length;                *)
(*   SpecRoot      one directory tree scanned at two root locations;       *)
(*   SpecExport    the export command of the CLI, one action per awaited   *)
(*                 call;                                                   *)
(*   SpecHooks     runs of the git hook installer and uninstaller.         *)
(***************************************************************************)
EXTENDS Integers, Sequences, FiniteSets, TLC

VARIABLES
    storeFile,   \* content of ~/.apigraveyard.json (DB_FILE)
    backupFile,  \* content of ~/.apigraveyard.backup.json (DB_BACKUP_FILE)
    tmpFile,     \* content of ~/.apigraveyard.json.tmp
    clock,       \* wall clock: the last value new Date() returned
    call,        \* the last call made: operation and arguments
    ret,         \* what the last call returned (or threw)
    proc,        \* SpecWrite: each process's place in the call it runs
    test,        \* SpecTest: the state of one testKeys call
    scan,        \* SpecScan: the state of one scanDirectory call
    cmd          \* SpecCmd: the state of one run of the scan command

storeVars == <<storeFile, backupFile, tmpFile, clock, call, ret>>

(***************************************************************************)
(* Bounds of the model.                                                    *)
(***************************************************************************)
MaxTime == 3      \* timestamps are 1..MaxTime: the number of calls in a run
MaxIds == 2       \* project ids (UUIDs) are 1..MaxIds
MaxKeys == 2      \* keys found by one scan
MaxResults == 2   \* test results merged by one updateKeysStatus call
MaxFiles == 2     \* totalFiles of a scan is 1..MaxFiles

Times == 1..MaxTime
Ids == 1..MaxIds

(***************************************************************************)
(* JavaScript values.                                                      *)
(***************************************************************************)
NullStatus == "null"       \* status: null
NullTime == 0              \* lastTested: null
NoError == "absent"        \* the key record has no lastError property
NullError == "null"        \* result.error === null
EmptyObject == "{}"        \* quotaInfo: {}
Undefined == "undefined"   \* result.details not given

DB_VERSION == "1.0.0"
OtherVersion == "0.9.0"    \* any version string other than DB_VERSION

Range(s) == {s[i] : i \in 1..Len(s)}

RECURSIVE SelectSeqBy(_, _)
\* Array.prototype.filter with the set of kept elements given
SelectSeqBy(s, keep) ==
    IF s = <<>> THEN <<>>
    ELSE IF Head(s) \in keep THEN <<Head(s)>> \o SelectSeqBy(Tail(s), keep)
    ELSE SelectSeqBy(Tail(s), keep)

(***************************************************************************)
(* Paths.  A path is [abs, segs]: absolute or relative, and its segments.  *)
(* An absolute resolved path is its sequence of segments.                  *)
(***************************************************************************)
RECURSIVE ResolveSegs(_, _)
\* path.resolve's normalisation: "." is dropped, ".." removes the segment
\* before it (and is dropped at the root)
ResolveSegs(done, rest) ==
    IF rest = <<>> THEN done
    ELSE IF Head(rest) = "." THEN ResolveSegs(done, Tail(rest))
    ELSE IF Head(rest) = ".."
         THEN ResolveSegs(IF done = <<>> THEN <<>> ELSE SubSeq(done, 1, Len(done) - 1),
                          Tail(rest))
    ELSE ResolveSegs(Append(done, Head(rest)), Tail(rest))

\* path.resolve(p) in a process whose working directory is cwd
PathResolve(cwd, p) ==
    IF p.abs THEN ResolveSegs(<<>>, p.segs) ELSE ResolveSegs(<<>>, cwd \o p.segs)

\* path.basename(p): the last segment as written
PathBasename(p) == IF p.segs = <<>> THEN "" ELSE p.segs[Len(p.segs)]

\* String.prototype.toLowerCase on one segment
LowerSeg(s) == IF s = "P" THEN "p" ELSE s

ToLowerCase(segs) == [i \in 1..Len(segs) |-> LowerSeg(segs[i])]

\* normalizePath without the lower-casing
NormalizePathCaseSensitive(cwd, p) == PathResolve(cwd, p)

normalizePath(cwd, p) == ToLowerCase(PathResolve(cwd, p))

\* a stored project path is absolute: its resolution ignores the cwd
AbsPath(segs) == [abs |-> TRUE, segs |-> segs]
normalizeStored(segs) == normalizePath(<<>>, AbsPath(segs))

\* The path arguments of the calls, each with the caller's working directory
PathInputs ==
    { [cwd |-> <<>>,    p |-> [abs |-> TRUE,  segs |-> <<"p">>]],
      [cwd |-> <<>>,    p |-> [abs |-> TRUE,  segs |-> <<"P">>]],
      [cwd |-> <<"q">>, p |-> [abs |-> FALSE, segs |-> <<"..", "p">>]],
      [cwd |-> <<"q">>, p |-> [abs |-> FALSE, segs |-> <<".">>]] }

(***************************************************************************)
(* Documents and file contents.                                            *)
(***************************************************************************)
\* createEmptyDatabase
createEmptyDatabase(now) ==
    [version |-> DB_VERSION, createdAt |-> now, updatedAt |-> now,
     projects |-> <<>>, bannedKeys |-> <<>>]

NoDoc == [version |-> "", createdAt |-> 0, updatedAt |-> 0,
          projects |-> <<>>, bannedKeys |-> <<>>]

\* What a file holds: nothing (ENOENT), the complete JSON text of a
\* database, a truncated JSON text, text that is no JSON at all, the JSON
\* text null, or the JSON text of a number, string or boolean.
Absent == [k |-> "absent", d |-> NoDoc]
Full(d) == [k |-> "full", d |-> d]
Part(d) == [k |-> "part", d |-> d]
Garbage == [k |-> "garbage", d |-> NoDoc]
JsonNull == [k |-> "jsonnull", d |-> NoDoc]
JsonScalar == [k |-> "scalar", d |-> NoDoc]

\* JSON.parse of a file's text: a database object, null, a scalar, or a
\* SyntaxError
JsonParse(c) ==
    CASE c.k = "full" -> [k |-> "object", d |-> c.d]
      [] c.k = "jsonnull" -> [k |-> "null", d |-> NoDoc]
      [] c.k = "scalar" -> [k |-> "scalar", d |-> NoDoc]
      [] OTHER -> [k |-> "SyntaxError", d |-> NoDoc]

JsNull == [k |-> "null", d |-> NoDoc]

\* readDatabase: the value it returns
readDatabase(store, backup) ==
    IF store.k = "absent" THEN JsNull
    ELSE LET v == JsonParse(store) IN
         IF v.k # "SyntaxError" THEN v
         ELSE IF backup.k = "absent" THEN JsNull
         ELSE LET b == JsonParse(backup) IN
              IF b.k = "SyntaxError" THEN JsNull ELSE b

Files(s, b, t) == [store |-> s, backup |-> b, tmp |-> t]

\* writeDatabase run to completion: stamp updatedAt, copy the store file
\* (when there is one) over the backup, write the temp file, rename it
\* over the store file
writeDatabase(f, db, now) ==
    LET doc == [db EXCEPT !.updatedAt = now] IN
    [store |-> Full(doc),
     backup |-> IF f.store.k # "absent" THEN f.store ELSE f.backup,
     tmp |-> Absent]

\* initDatabase run to completion: [ok, db, f]; ok is FALSE when it throws
initDatabase(f, now) ==
    LET r == readDatabase(f.store, f.backup) IN
    IF r.k = "null"
    THEN LET db == createEmptyDatabase(now)
             f1 == writeDatabase(f, db, now)
         IN [ok |-> TRUE, db |-> f1.store.d, f |-> f1]
    ELSE IF r.k = "scalar"
    THEN \* db.version = DB_VERSION on a primitive: TypeError (module code is strict)
         [ok |-> FALSE, db |-> NoDoc, f |-> f]
    ELSE IF r.d.version # DB_VERSION
    THEN LET db == [r.d EXCEPT !.version = DB_VERSION]
             f1 == writeDatabase(f, db, now)
         IN [ok |-> TRUE, db |-> f1.store.d, f |-> f1]
    ELSE [ok |-> TRUE, db |-> r.d, f |-> f]

(***************************************************************************)
(* Scan results and test results: the arguments of the calls.              *)
(***************************************************************************)
KeyNames == <<"k1", "k2", "k3", "k4">>
Keys == {KeyNames[i] : i \in 1..MaxKeys}

\* the service whose pattern matched the key
ServiceOf(k) == IF k = "k1" THEN "OpenAI" ELSE IF k = "k2" THEN "AWS" ELSE "Groq"

\* a scanner key object; key (masked), filePath, lineNumber and column are
\* copied the way service is and are left out
KeyMatch(k) == [service |-> ServiceOf(k), fullKey |-> k]

NoDupSeqs(S, n) ==
    UNION {{s \in [1..m -> S] : \A i, j \in 1..m : i # j => s[i] # s[j]} : m \in 0..n}

\* scanDirectory's keysFound is deduplicated by fullKey
ScanResults ==
    {[totalFiles |-> n, keysFound |-> [i \in 1..Len(ks) |-> KeyMatch(ks[i])]] :
        n \in 1..MaxFiles, ks \in NoDupSeqs(Keys, MaxKeys)}

\* results of testKeys: status, details and error of one key
ResultKinds ==
    { [status |-> "VALID", details |-> "dValid", error |-> NullError],
      [status |-> "ERROR", details |-> "dError", error |-> "e1"] }

TestResult(k, r) ==
    [fullKey |-> k, status |-> r.status, details |-> r.details, error |-> r.error]

TestResults == {TestResult(k, r) : k \in Keys, r \in ResultKinds}

ResultLists == UNION {[1..m -> TestResults] : m \in 0..MaxResults}

\* JavaScript truthiness of an error value
Truthy(e) == e \notin {NullError, Undefined, ""}

(***************************************************************************)
(* The store's operations on the parsed database.                          *)
(***************************************************************************)
\* db.projects.findIndex(p => normalizePath(p.path) === normalizedPath),
\* 1-based; 0 is JavaScript's -1
FindIndex(projects, normalizedPath) ==
    LET hits == {i \in 1..Len(projects) : normalizeStored(projects[i].path) = normalizedPath}
    IN IF hits = {} THEN 0 ELSE CHOOSE i \in hits : \A j \in hits : i <= j

\* the id that is always generated anew
ProjectIdAlwaysNew(projects, existingIndex, uuid) == uuid

\* id: existingIndex >= 0 ? db.projects[existingIndex].id : generateUUID()
ProjectId(projects, existingIndex, uuid) ==
    IF existingIndex > 0 THEN projects[existingIndex].id ELSE uuid

\* the key record made from a scanner key object
NewKeyRecord(key) ==
    [service |-> key.service, fullKey |-> key.fullKey, status |-> NullStatus,
     lastTested |-> NullTime, quotaInfo |-> EmptyObject, lastError |-> NoError]

\* key records that keep the stored record of a key found again
KeyRecordsMerged(oldKeys, keysFound) ==
    [i \in 1..Len(keysFound) |->
        LET same == {j \in 1..Len(oldKeys) : oldKeys[j].fullKey = keysFound[i].fullKey}
        IN IF same = {} THEN NewKeyRecord(keysFound[i])
           ELSE oldKeys[CHOOSE j \in same : TRUE]]

\* keys: scanResults.keysFound.map(key => ({...}))
KeyRecords(oldKeys, keysFound) ==
    [i \in 1..Len(keysFound) |-> NewKeyRecord(keysFound[i])]

\* saveProject on the database initDatabase returned
saveProjectDb(db, cwd, p, scanResults, now, uuid) ==
    LET normalizedPath == normalizePath(cwd, p)
        existingIndex == FindIndex(db.projects, normalizedPath)
        project ==
            [id |-> ProjectId(db.projects, existingIndex, uuid),
             name |-> PathBasename(p),
             path |-> PathResolve(cwd, p),
             scannedAt |-> now,
             totalFiles |-> scanResults.totalFiles,
             keys |-> KeyRecords(IF existingIndex > 0
                                 THEN db.projects[existingIndex].keys ELSE <<>>,
                                 scanResults.keysFound)]
    IN [db EXCEPT !.projects =
            IF existingIndex > 0 THEN [@ EXCEPT ![existingIndex] = project]
            ELSE Append(@, project)]

\* project.keys.find(k => k.fullKey === fullKey), 1-based; 0 is undefined
FindKey(keys, fullKey) ==
    LET hits == {i \in 1..Len(keys) : keys[i].fullKey = fullKey}
    IN IF hits = {} THEN 0 ELSE CHOOSE i \in hits : \A j \in hits : i <= j

\* a merge that leaves the key's status as it was
MergeResultKeepingStatus(key, result, now) ==
    [key EXCEPT !.lastTested = now,
                !.quotaInfo = IF result.details = Undefined THEN EmptyObject
                              ELSE result.details,
                !.lastError = IF Truthy(result.error) THEN result.error ELSE @]

\* the body of "if (key)": status, lastTested, quotaInfo, and lastError only
\* when the result's error is truthy
MergeResult(key, result, now) ==
    [key EXCEPT !.status = result.status,
                !.lastTested = now,
                !.quotaInfo = IF result.details = Undefined THEN EmptyObject
                              ELSE result.details,
                !.lastError = IF Truthy(result.error) THEN result.error ELSE @]

\* a merge that puts an unmatched result on the first key
ResultTargetFirst(keys, result) ==
    IF FindKey(keys, result.fullKey) > 0 THEN FindKey(keys, result.fullKey)
    ELSE IF keys = <<>> THEN 0 ELSE 1

\* the index of the key one result is merged into
ResultTarget(keys, result) == FindKey(keys, result.fullKey)

RECURSIVE ApplyResults(_, _, _, _)
\* for (const result of testResults) {...}: the keys and updatedCount after
ApplyResults(keys, results, now, count) ==
    IF results = <<>> THEN [keys |-> keys, count |-> count]
    ELSE LET result == Head(results)
             i == ResultTarget(keys, result)
         IN IF i > 0
            THEN ApplyResults([keys EXCEPT ![i] = MergeResult(keys[i], result, now)],
                              Tail(results), now, count + 1)
            ELSE ApplyResults(keys, Tail(results), now, count)

\* the project updateKeysStatus, updateKeyStatus and getProject look up
FindProject(projects, cwd, p) == FindIndex(projects, normalizePath(cwd, p))

\* db.projects.filter(p => normalizePath(p.path) !== normalizedPath)
RemoveProject(projects, normalizedPath) ==
    SelectSeqBy(projects,
                {pr \in Range(projects) : normalizeStored(pr.path) # normalizedPath})

\* a ban that does not look at the list first
BanCheckNone(bannedKeys, keyValue) == FALSE

\* db.bannedKeys.includes(keyValue)
BanCheck(bannedKeys, keyValue) == keyValue \in Range(bannedKeys)

\* db.bannedKeys.filter(k => k !== keyValue)
RemoveBanned(bannedKeys, keyValue) ==
    SelectSeqBy(bannedKeys, Range(bannedKeys) \ {keyValue})

(***************************************************************************)
(* The store's exported operations, each run to completion on the files.   *)
(* Each gives the files after the call and what the call returned.         *)
(***************************************************************************)
RetVoid == [kind |-> "void", b |-> FALSE, n |-> 0]
RetBool(b) == [kind |-> "bool", b |-> b, n |-> 0]
RetNum(n) == [kind |-> "num", b |-> FALSE, n |-> n]
RetThrow == [kind |-> "throw", b |-> FALSE, n |-> 0]

Outcome(f, r) == [f |-> f, ret |-> r]

TheFiles == Files(storeFile, backupFile, tmpFile)

\* crypto.randomUUID(), which saveProject calls when no project is stored
\* for the path: an id no stored project has (NoUuid when it is not called)
NoUuid == 0
FreshIds(f, cwd, p) ==
    LET projects == IF f.store.k = "full" THEN f.store.d.projects ELSE <<>> IN
    IF FindProject(projects, cwd, p) > 0 THEN {NoUuid}
    ELSE Ids \ {projects[i].id : i \in 1..Len(projects)}

saveProject(f, cwd, p, scanResults, now, uuid) ==
    LET i == initDatabase(f, now) IN
    IF ~i.ok THEN Outcome(i.f, RetThrow)
    ELSE Outcome(writeDatabase(i.f, saveProjectDb(i.db, cwd, p, scanResults, now, uuid), now),
                 RetVoid)

updateKeysStatus(f, cwd, p, testResults, now) ==
    LET i == initDatabase(f, now) IN
    IF ~i.ok THEN Outcome(i.f, RetThrow)
    ELSE LET x == FindProject(i.db.projects, cwd, p) IN
         IF x = 0 THEN Outcome(i.f, RetNum(0))
         ELSE LET a == ApplyResults(i.db.projects[x].keys, testResults, now, 0)
                  db == [i.db EXCEPT !.projects[x].keys = a.keys]
              IN Outcome(writeDatabase(i.f, db, now), RetNum(a.count))

updateKeyStatus(f, cwd, p, keyValue, testResult, now) ==
    LET i == initDatabase(f, now) IN
    IF ~i.ok THEN Outcome(i.f, RetThrow)
    ELSE LET x == FindProject(i.db.projects, cwd, p) IN
         IF x = 0 THEN Outcome(i.f, RetBool(FALSE))
         ELSE LET y == FindKey(i.db.projects[x].keys, keyValue) IN
              IF y = 0 THEN Outcome(i.f, RetBool(FALSE))
              ELSE LET db == [i.db EXCEPT !.projects[x].keys[y] =
                                  MergeResult(@, testResult, now)]
                   IN Outcome(writeDatabase(i.f, db, now), RetBool(TRUE))

\* deleteProject, were it to write the database whether or not a project
\* was removed
DeleteProjectAlwaysWrites(f, cwd, p, now) ==
    LET i == initDatabase(f, now) IN
    IF ~i.ok THEN Outcome(i.f, RetThrow)
    ELSE LET rest == RemoveProject(i.db.projects, normalizePath(cwd, p)) IN
         Outcome(writeDatabase(i.f, [i.db EXCEPT !.projects = rest], now),
                 RetBool(Len(rest) < Len(i.db.projects)))

deleteProject(f, cwd, p, now) ==
    LET i == initDatabase(f, now) IN
    IF ~i.ok THEN Outcome(i.f, RetThrow)
    ELSE LET rest == RemoveProject(i.db.projects, normalizePath(cwd, p)) IN
         IF Len(rest) < Len(i.db.projects)
         THEN Outcome(writeDatabase(i.f, [i.db EXCEPT !.projects = rest], now),
                      RetBool(TRUE))
         ELSE Outcome(i.f, RetBool(FALSE))

addBannedKey(f, keyValue, now) ==
    LET i == initDatabase(f, now) IN
    IF ~i.ok THEN Outcome(i.f, RetThrow)
    ELSE IF BanCheck(i.db.bannedKeys, keyValue) THEN Outcome(i.f, RetBool(FALSE))
    ELSE Outcome(writeDatabase(i.f, [i.db EXCEPT !.bannedKeys = Append(@, keyValue)], now),
                 RetBool(TRUE))

removeBannedKey(f, keyValue, now) ==
    LET i == initDatabase(f, now) IN
    IF ~i.ok THEN Outcome(i.f, RetThrow)
    ELSE LET rest == RemoveBanned(i.db.bannedKeys, keyValue) IN
         IF Len(rest) < Len(i.db.bannedKeys)
         THEN Outcome(writeDatabase(i.f, [i.db EXCEPT !.bannedKeys = rest], now),
                      RetBool(TRUE))
         ELSE Outcome(i.f, RetBool(FALSE))

isBanned(f, keyValue, now) ==
    LET i == initDatabase(f, now) IN
    IF ~i.ok THEN Outcome(i.f, RetThrow)
    ELSE Outcome(i.f, RetBool(keyValue \in Range(i.db.bannedKeys)))

\* getProject: the id of the project returned, 0 for null
getProject(f, cwd, p, now) ==
    LET i == initDatabase(f, now) IN
    IF ~i.ok THEN Outcome(i.f, RetThrow)
    ELSE LET x == FindProject(i.db.projects, cwd, p) IN
         Outcome(i.f, RetNum(IF x = 0 THEN 0 ELSE i.db.projects[x].id))

\* getAllProjects: the projects of the database initDatabase returned
getAllProjects(f, now) ==
    LET i == initDatabase(f, now) IN [f |-> i.f, ok |-> i.ok, projects |-> i.db.projects]

\* getBannedKeys: the number of banned keys in the list returned
getBannedKeys(f, now) ==
    LET i == initDatabase(f, now) IN
    IF ~i.ok THEN Outcome(i.f, RetThrow)
    ELSE Outcome(i.f, RetNum(Len(i.db.bannedKeys)))

RECURSIVE TotalKeys(_)
\* db.projects.reduce((sum, p) => sum + p.keys.length, 0)
TotalKeys(projects) ==
    IF projects = <<>> THEN 0
    ELSE Len(Head(projects).keys) + TotalKeys(Tail(projects))

\* getDatabaseStats: totalKeys of the statistics returned
getDatabaseStats(f, now) ==
    LET i == initDatabase(f, now) IN
    IF ~i.ok THEN Outcome(i.f, RetThrow)
    ELSE Outcome(i.f, RetNum(TotalKeys(i.db.projects)))

clearDatabase(f, now) ==
    Outcome(writeDatabase(f, createEmptyDatabase(now), now), RetVoid)

\* The call made: the operation and its arguments (those it does not take
\* are the None values)
NonePath == [cwd |-> <<>>, p |-> [abs |-> TRUE, segs |-> <<>>]]
NoneScan == [totalFiles |-> 0, keysFound |-> <<>>]
NoneKey == ""

Call(op, a, sr, rs, k) ==
    [op |-> op, path |-> a, scanResults |-> sr, testResults |-> rs, keyValue |-> k]

(***************************************************************************)
(* The tester: constants, status mapping, backoff, the checkers' bodies.   *)
(***************************************************************************)
MAX_RETRIES == 3
RATE_LIMIT_DELAY == 500
BaseDelay == 1000          \* getBackoffDelay's default baseDelay

MaxBatch == 2              \* keys given to one testKeys call

KeyStatus == {"VALID", "INVALID", "EXPIRED", "RATE_LIMITED", "ERROR"}

RECURSIVE Pow2(_)
\* Math.pow(2, attempt)
Pow2(attempt) == IF attempt = 0 THEN 1 ELSE 2 * Pow2(attempt - 1)

\* a backoff that does not grow
GetBackoffDelayFlat(attempt) == BaseDelay

\* baseDelay * Math.pow(2, attempt)
getBackoffDelay(attempt) == BaseDelay * Pow2(attempt)

\* a mapping that takes 403 for an invalid key
GetStatusFromCode403Invalid(statusCode) ==
    IF statusCode = 200 THEN "VALID"
    ELSE IF statusCode \in {401, 403} THEN "INVALID"
    ELSE IF statusCode = 429 THEN "RATE_LIMITED"
    ELSE "ERROR"

getStatusFromCode(statusCode) ==
    IF statusCode = 200 THEN "VALID"
    ELSE IF statusCode = 401 THEN "INVALID"
    ELSE IF statusCode = 403 THEN "EXPIRED"
    ELSE IF statusCode = 429 THEN "RATE_LIMITED"
    ELSE "ERROR"

\* a retry test that allows one retry more
RetryAllowedOnceMore(retries) == retries <= MAX_RETRIES

\* retries < MAX_RETRIES
RetryAllowed(retries) == retries < MAX_RETRIES

\* the keys of SERVICE_TESTERS
SERVICE_TESTERS ==
    {"OpenAI", "Groq", "GitHub", "Stripe", "Google/Firebase", "AWS",
     "Anthropic", "Hugging Face"}

\* a service name that SERVICE_TESTERS does not hold
OtherService == "Twilio"

\* names that SERVICE_TESTERS, an object literal, inherits from
\* Object.prototype: Object itself, and a method that needs a this
InheritedNames == {"constructor", "hasOwnProperty"}

\* const tester = SERVICE_TESTERS[service]: the property of that name, own
\* or inherited, or undefined
TesterOf(service) ==
    IF service \in SERVICE_TESTERS \cup InheritedNames THEN service ELSE Undefined

\* key texts are sequences of characters
UpperOrDigit ==
    {"A", "B", "C", "D", "E", "F", "G", "H", "I", "J", "K", "L", "M", "N", "O",
     "P", "Q", "R", "S", "T", "U", "V", "W", "X", "Y", "Z",
     "0", "1", "2", "3", "4", "5", "6", "7", "8", "9"}

AwsKeyText ==
    <<"A", "K", "I", "A", "I", "O", "S", "F", "O", "D", "N", "N", "7", "E", "X",
      "A", "M", "P", "L", "E">>

\* key texts given to the AWS checker: of the format, one character longer,
\* one shorter, and with a lower-case letter
AwsKeyTexts ==
    {AwsKeyText, AwsKeyText \o <<"X">>, SubSeq(AwsKeyText, 1, Len(AwsKeyText) - 1),
     [AwsKeyText EXCEPT ![5] = "i"]}

OtherKeyText == <<"k", "e", "y">>

\* the pattern without its end anchor
AwsKeyFormatUnanchored(key) ==
    /\ Len(key) >= 20
    /\ SubSeq(key, 1, 4) = <<"A", "K", "I", "A">>
    /\ \A n \in 5..20 : key[n] \in UpperOrDigit

\* /^AKIA[A-Z0-9]{16}$/.test(key)
AwsKeyFormat(key) ==
    /\ Len(key) = 20
    /\ SubSeq(key, 1, 4) = <<"A", "K", "I", "A">>
    /\ \A n \in 5..20 : key[n] \in UpperOrDigit

\* the key objects given to testKeys; key (masked), filePath, lineNumber and
\* column are copied into the result the way service and fullKey are
TesterKeys ==
    {[service |-> sv, fullKey |-> OtherKeyText] :
        sv \in (SERVICE_TESTERS \ {"AWS"}) \cup {OtherService} \cup InheritedNames}
        \cup {[service |-> "AWS", fullKey |-> k] : k \in AwsKeyTexts}

KeyLists == UNION {[1..m -> TesterKeys] : m \in 0..MaxBatch}

\* what one HTTP attempt ends with: a response (any status is accepted,
\* validateStatus: () => true) or a thrown error with a code.  The body of a
\* 200 response is "usual" (the documented shape), "odd" (an object whose
\* list field is something other than a list) or "empty" (falsy data).
NoOutcome == [kind |-> "none", status |-> 0, body |-> "none", code |-> "none"]
Response(st, b) == [kind |-> "response", status |-> st, body |-> b, code |-> "none"]
Failure(c) == [kind |-> "error", status |-> 0, body |-> "none", code |-> c]

StatusCodes == {200, 400, 401, 403, 429, 500}

Responses ==
    {Response(200, b) : b \in {"usual", "odd", "empty"}}
        \cup {Response(st, "usual") : st \in StatusCodes \ {200}}

\* ECONNABORTED is axios's error when REQUEST_TIMEOUT passes
ErrorCodes == {"ECONNRESET", "ECONNABORTED"}

\* the result object a checker starts with
NewResult(now) ==
    [status |-> "ERROR", details |-> [testedAt |-> now, fields |-> {}],
     error |-> NullError]

\* the catch block of a checker
Caught(result, message) == [result EXCEPT !.status = "ERROR", !.error = message]

WithFields(result, fs) == [result EXCEPT !.details.fields = @ \cup fs]

\* the checkers whose reading of a 200 body calls slice or map on a field
ReadsList == {"OpenAI", "Groq", "Hugging Face"}

\* the detail fields a checker sets from a 200 response with truthy data,
\* up to the list field
FieldsBeforeList(sv) ==
    CASE sv \in {"OpenAI", "Groq"} -> {"modelsCount"}
      [] sv = "Hugging Face" -> {"username", "email"}
      [] sv = "GitHub" -> {"username", "name", "email", "publicRepos"}
      [] sv = "Stripe" -> {"livemode", "available", "pending"}
      [] sv = "Google/Firebase" -> {"audience", "scope", "expiresIn"}
      [] OTHER -> {}

ListField(sv) ==
    CASE sv \in {"OpenAI", "Groq"} -> {"models"}
      [] sv = "Hugging Face" -> {"orgs"}
      [] OTHER -> {}

\* the status a checker takes from the response of its first request
StatusOf(sv, response) ==
    IF sv = "Anthropic" /\ response.status \in {200, 400} THEN "VALID"
    ELSE getStatusFromCode(response.status)

\* the checker's statements after its first request returned a response:
\* the result so far, and whether the usage request follows (OpenAI)
AfterFirst(sv, result, response) ==
    LET r1 == [result EXCEPT !.status = StatusOf(sv, response)]
        reads == sv # "Anthropic" /\ response.status = 200 /\ response.body # "empty"
        r2 == IF reads THEN WithFields(r1, FieldsBeforeList(sv)) ELSE r1
        throws == reads /\ sv \in ReadsList /\ response.body = "odd"
        r3 == IF throws THEN Caught(r2, "TypeError")
              ELSE IF reads THEN WithFields(r2, ListField(sv))
              ELSE r2
        r4 == IF sv = "GitHub" THEN WithFields(r3, {"rateLimit"}) ELSE r3
    IN [result |-> r4,
        usage |-> sv = "OpenAI" /\ response.status = 200 /\ ~throws]

\* testAWSKey
testAWSKey(key, now) ==
    IF AwsKeyFormat(key)
    THEN [status |-> "VALID", details |-> [testedAt |-> now, fields |-> {"note"}],
          error |-> NullError]
    ELSE [status |-> "INVALID", details |-> [testedAt |-> now, fields |-> {}],
          error |-> "Invalid AWS Access Key ID format"]

\* `No tester available for service: ${service}`
NoTesterMessage(service) ==
    CASE service = "Twilio" -> "No tester available for service: Twilio"
      [] service = "constructor" -> "No tester available for service: constructor"
      [] service = "hasOwnProperty" -> "No tester available for service: hasOwnProperty"
      [] OTHER -> "No tester available for service: other"

\* testKeys' result when tester is undefined
NoTesterResult(service, now) ==
    [status |-> "ERROR", details |-> [testedAt |-> now, fields |-> {}],
     error |-> NoTesterMessage(service)]

\* testKeys' catch block around tester(fullKey)
TesterThrew(message, now) ==
    [status |-> "ERROR", details |-> [testedAt |-> now, fields |-> {}],
     error |-> message]

\* details: undefined; testedAt is then read as NullTime
NoDetails == [testedAt |-> NullTime, fields |-> {}]

\* what testKeys takes from the value an inherited function returned:
\* Object(fullKey) is a String object, which has no status, details or error
NotAResult == [status |-> Undefined, details |-> NoDetails, error |-> Undefined]

\* results.push({service, ..., status, details, error})
Pushed(keyInfo, testResult) ==
    [service |-> keyInfo.service, fullKey |-> keyInfo.fullKey,
     status |-> testResult.status, details |-> testResult.details,
     error |-> testResult.error]

\* pc: the place in testKeys, the checker and requestWithRetry.  keysArray,
\* i, results: testKeys' variables.  result: the checker's result object.
\* req: the checker's request under way.  retries: requestWithRetry's
\* parameter.  attempts, waits, last, first are history: the HTTP attempts
\* and the delays of the running requestWithRetry call, the outcome of the
\* last attempt, what the checker's first request ended with; paused is the
\* time spent in the delays between keys, events what testKeys did so far,
\* flying the number of requests sent and not yet answered.
IdleTest ==
    [pc |-> "idle", keysArray |-> <<>>, i |-> 1, results |-> <<>>,
     result |-> NewResult(0), req |-> "none", retries |-> 0, attempts |-> 0,
     waits |-> <<>>, last |-> NoOutcome, first |-> NoOutcome, paused |-> 0,
     events |-> <<>>, flying |-> 0]

\* what testKeys did, in order: the loop's body began for key n, its result
\* was added, a delay of n ms was awaited
Event(e, n) == [e |-> e, n |-> n]

Started(t) == [t EXCEPT !.events = Append(@, Event("start", t.i))]

(***************************************************************************)
(* The scanner: files, patterns, scanFile, the ignore test, deduplication. *)
(***************************************************************************)
MaxScanFiles == 3          \* files enumerated by one scan
BatchSize == 2             \* BATCH_SIZE is 50; the model's batches hold
                           \* BatchSize files, so that a scan of MaxScanFiles
                           \* files runs more than one batch

\* the services of API_KEY_PATTERNS, in the order of the list
PatternOrder ==
    <<"OpenAI", "Groq", "GitHub", "Stripe", "Google/Firebase", "AWS", "Anthropic",
      "Hugging Face">>

\* '***...***'
MaskMarker == <<"*", "*", "*", ".", ".", ".", "*", "*", "*">>

\* a masking that shows the first five characters
MaskKeyFirstFive(key) ==
    IF Len(key) <= 8 THEN [n \in 1..Len(key) |-> "*"]
    ELSE SubSeq(key, 1, 5) \o MaskMarker \o SubSeq(key, Len(key) - 3, Len(key))

\* maskKey(key), key and the result as sequences of characters
maskKey(key) ==
    IF Len(key) <= 8 THEN [n \in 1..Len(key) |-> "*"]
    ELSE SubSeq(key, 1, 4) \o MaskMarker \o SubSeq(key, Len(key) - 3, Len(key))

DEFAULT_IGNORE_DIRS == {"node_modules", ".git", "dist", "build", ".next", "venv"}
DEFAULT_IGNORE_FILES == {"package-lock.json", "yarn.lock", ".env.example", ".env.sample"}

\* the directory names of the model that end with the pattern, the way
\* normalizedPath.includes(`${pattern}/`) finds them
EndingWith(pattern) ==
    IF pattern = "build" THEN {"build", "rebuild"} ELSE {pattern}

\* shouldIgnoreFile(filePath, ignorePatterns), filePath as its segments
shouldIgnoreFile(filePath, ignorePatterns) ==
    \E pattern \in ignorePatterns :
        \/ filePath[Len(filePath)] = pattern
        \/ \E n \in 1..(Len(filePath) - 1) : filePath[n] \in EndingWith(pattern)

\* the scan root, and the paths below it that glob may enumerate
ScanRoot == <<"home", "proj">>

RelPaths ==
    {<<"a.js">>, <<"src", "b.js">>, <<"lib", "d.js">>, <<"rebuild", "c.js">>,
     <<"yarn.lock">>}

\* what fs.readFile(filePath, 'utf-8') ends with: the text, or an error
\* with a code (ENOENT, EACCES) or an encoding message.  A text is the
\* sequence of the keys in it, by position.
FileTexts == {<<>>, <<"k1">>, <<"k2", "k1">>, <<"k1", "k1">>}

ReadOutcomes ==
    {[ok |-> TRUE, text |-> t, code |-> "none"] : t \in FileTexts}
        \cup {[ok |-> FALSE, text |-> <<>>, code |-> c] : c \in {"ENOENT", "EACCES", "encoding"}}

ScanFiles == {[rel |-> r, read |-> o] : r \in RelPaths, o \in ReadOutcomes}

\* the lists glob may return: distinct paths, in any order
FileLists ==
    UNION {{fs \in [1..m -> ScanFiles] :
                \A a, b \in 1..m : a # b => fs[a].rel # fs[b].rel} : m \in 0..MaxScanFiles}

RECURSIVE MatchesFrom(_, _, _, _)
\* while ((match = regex.exec(content)) !== null) results.push({...}): the
\* matches of one pattern in a file, by position
MatchesFrom(service, rel, text, pos) ==
    IF pos > Len(text) THEN <<>>
    ELSE (IF ServiceOf(text[pos]) = service
          THEN <<[service |-> service, fullKey |-> text[pos], filePath |-> rel,
                  pos |-> pos]>>
          ELSE <<>>) \o MatchesFrom(service, rel, text, pos + 1)

RECURSIVE PatternsFrom(_, _, _)
\* for (const {service, pattern} of API_KEY_PATTERNS)
PatternsFrom(n, rel, text) ==
    IF n > Len(PatternOrder) THEN <<>>
    ELSE MatchesFrom(PatternOrder[n], rel, text, 1) \o PatternsFrom(n + 1, rel, text)

\* scanFile(filePath, basePath): the matches, or none when the read fails
scanFile(file) ==
    IF file.read.ok THEN PatternsFrom(1, file.rel, file.read.text) ELSE <<>>

RECURSIVE Dedup(_, _)
\* keys.filter(keyInfo => ...) with the Set seen
Dedup(keys, seen) ==
    IF keys = <<>> THEN <<>>
    ELSE IF Head(keys).fullKey \in seen THEN Dedup(Tail(keys), seen)
    ELSE <<Head(keys)>> \o Dedup(Tail(keys), seen \cup {Head(keys).fullKey})

\* deduplicateKeys(keys)
deduplicateKeys(keys) == Dedup(keys, {})

RECURSIVE Flatten(_, _)
\* for (const results of batchResults) allKeys.push(...results), over the
\* files of the batch in the order given
Flatten(order, got) ==
    IF order = <<>> THEN <<>> ELSE got[Head(order)] \o Flatten(Tail(order), got)

\* the results of a batch taken in the order the reads completed
BatchResultsAsCompleted(first, last, completed) == completed

\* batchResults of Promise.all: in the order of the batch, whatever the
\* order the reads completed in
BatchResults(first, last, completed) == [n \in 1..(last - first + 1) |-> first + n - 1]

Min(a, b) == IF a <= b THEN a ELSE b

\* a count of the files that could be read
TotalFilesRead(files) == Cardinality({n \in 1..Len(files) : files[n].read.ok})

\* totalFiles = files.length
TotalFiles(files) == Len(files)

\* a catch block that returns no error field
ReturnedFromCatchNoError(totalFiles, allKeys, message) ==
    [totalFiles |-> totalFiles, keysFound |-> deduplicateKeys(allKeys),
     error |-> Undefined]

\* the catch block's return {totalFiles, keysFound, error: error.message}
ReturnedFromCatch(totalFiles, allKeys, message) ==
    [totalFiles |-> totalFiles, keysFound |-> deduplicateKeys(allKeys),
     error |-> message]

\* return {totalFiles, keysFound: deduplicateKeys(allKeys)}
ReturnedKeys(totalFiles, allKeys) ==
    [totalFiles |-> totalFiles, keysFound |-> deduplicateKeys(allKeys),
     error |-> Undefined]

\* pc: the place in scanDirectory.  listing: what glob returns.  files,
\* totalFiles, allKeys, i: scanDirectory's variables (i is 1-based).
\* pending: the reads of the batch that have not completed.  got: the
\* result of each completed scanFile.  completed: the files of the batch in
\* the order their reads completed.  globbed: glob has returned.  result:
\* what scanDirectory returned.
NoScanResult == [totalFiles |-> 0, keysFound |-> <<>>, error |-> Undefined]

IdleScan ==
    [pc |-> "idle", listing |-> <<>>, files |-> <<>>, totalFiles |-> 0,
     allKeys |-> <<>>, i |-> 1, pending |-> {}, got |-> <<>>, completed |-> <<>>,
     globbed |-> FALSE, result |-> NoScanResult]

(***************************************************************************)
(* The calls the scan command awaits, each as a function of what it is     *)
(* given and of what the file system and the network answer.               *)
(***************************************************************************)
RECURSIVE ScanAll(_)
\* the matches of the files, in the order of the files
ScanAll(files) ==
    IF files = <<>> THEN <<>> ELSE scanFile(Head(files)) \o ScanAll(Tail(files))

\* scanDirectory(dirPath, {recursive, ignorePatterns: []}) when glob returns
\* the listing: glob gives each file as dirPath joined with the path below
\* it, and that is the path shouldIgnoreFile is given
scanDirectory(dirPath, listing) ==
    LET keep == {f \in Range(listing) :
                    ~shouldIgnoreFile(dirPath \o f.rel,
                                      DEFAULT_IGNORE_DIRS \cup DEFAULT_IGNORE_FILES)}
        files == SelectSeqBy(listing, keep)
    IN ReturnedKeys(TotalFiles(files), ScanAll(files))

\* the text of a key the scanner matched: an AWS match is AKIA and sixteen
\* characters of [A-Z0-9]
KeyTextOf(k) == IF ServiceOf(k) = "AWS" THEN AwsKeyText ELSE OtherKeyText

\* what tester(fullKey) gives testKeys for a key of the service with the
\* text, when the checker's first request ends with the outcome and the
\* usage request (OpenAI) is answered or not
CheckerResult(service, text, outcome, usage, now) ==
    IF TesterOf(service) = Undefined THEN NoTesterResult(service, now)
    ELSE IF TesterOf(service) \in InheritedNames
    THEN IF service = "constructor" THEN NotAResult ELSE TesterThrew("TypeError", now)
    ELSE IF service = "AWS" THEN testAWSKey(text, now)
    ELSE IF outcome.kind = "error" THEN Caught(NewResult(now), outcome.code)
    ELSE LET a == AfterFirst(service, NewResult(now), outcome)
         IN IF a.usage /\ usage THEN WithFields(a.result, {"usage"}) ELSE a.result

\* what the checkers' requests can end with
Outcomes == Responses \cup {Failure(c) : c \in ErrorCodes}

\* testKeys(keysFound): the results, the key at position j tested at time
\* now + j
testKeys(keysFound, outcomes, usage, now) ==
    [j \in 1..Len(keysFound) |->
        Pushed(keysFound[j],
               CheckerResult(keysFound[j].service, KeyTextOf(keysFound[j].fullKey),
                             outcomes[j], usage, now + j))]

\* a test result as the store reads it: its details are an object or undefined
StoreResult(result) ==
    [fullKey |-> result.fullKey, status |-> result.status,
     details |-> IF result.details = NoDetails THEN Undefined ELSE "dTested",
     error |-> result.error]

RECURSIVE BannedLoop(_, _, _)
\* for (const key of scanResults.keysFound) await isBanned(key.fullKey)
BannedLoop(f, keysFound, now) ==
    IF keysFound = <<>> THEN Outcome(f, RetVoid)
    ELSE LET o == isBanned(f, Head(keysFound).fullKey, now) IN
         IF o.ret = RetThrow THEN o ELSE BannedLoop(o.f, Tail(keysFound), now + 1)

\* pc: the place in the scan command's action.  dir, testOption: the
\* directory argument and the --test option.  scanResults, testResults: the
\* action's variables.  outcomes: what each key's check ended with.  code:
\* the exit code.
IdleCmd ==
    [pc |-> "idle", dir |-> NonePath, testOption |-> FALSE,
     scanResults |-> NoScanResult, outcomes |-> <<>>, testResults |-> <<>>,
     code |-> "none"]

(***************************************************************************)
(* A process running one call step by step: the steps of initDatabase and  *)
(* of writeDatabase, each one file-system call.                            *)
(***************************************************************************)
Procs == {1, 2}

\* pc: where the process is.  op, key: the call it runs.  t: the time its
\* new Date() calls read.  db: the database object in memory.  cont: where
\* writeDatabase returns to.  ret: what the call returned.
\* snap, rdStore, rdBackup, endedAt are history: the store file when the
\* running writeDatabase began, the files readDatabase read, and the place
\* at which the process stopped.  snapBackup: the backup file when
\* writeDatabase was entered.  fd: the file the descriptor opened by
\* fs.writeFile writes to: "tmp", "store" once another process has renamed
\* the file, "gone" once another process has unlinked it.  raced: another
\* process wrote to the same file while this one was writing.
IdleProc ==
    [pc |-> "idle", op |-> "none", key |-> NoneKey, t |-> 0, db |-> NoDoc,
     cont |-> "none", ret |-> RetVoid, snap |-> Absent, rdStore |-> Absent,
     rdBackup |-> Absent, endedAt |-> "none", fd |-> "none", raced |-> FALSE,
     snapBackup |-> Absent]

\* the text a reader finds in a file that is being written or copied to
Truncated(c) == IF c.k \in {"full", "part"} THEN Part(c.d) ELSE Garbage

\* the file writeDatabase writes the new text to, were it the store file
TempFileIsStore == "store"

\* const tempFile = `${DB_FILE}.tmp`
TempFile == "tmp"

\* the places of writeDatabase at which the rename has not completed
BeforeRename == {"w_access", "w_copying", "w_write", "w_writing", "w_rename"}

(***************************************************************************)
(* Spec: one action per call of an exported operation.                     *)
(***************************************************************************)
\* the call's effect on the files, the clock and the returned value
Does(c, o, now) ==
    /\ storeFile' = o.f.store
    /\ backupFile' = o.f.backup
    /\ tmpFile' = o.f.tmp
    /\ clock' = now
    /\ call' = c
    /\ ret' = o.ret
    /\ UNCHANGED <<proc, test, scan, cmd>>

\* new Date(): every call reads a later time than the call before it; the
\* model stops at MaxTime
Now == {t \in Times : t = clock + 1}

SaveProject ==
    \E a \in PathInputs, sr \in ScanResults, now \in Now :
        \E uuid \in FreshIds(initDatabase(TheFiles, now).f, a.cwd, a.p) :
            Does(Call("saveProject", a, sr, <<>>, NoneKey),
                 saveProject(TheFiles, a.cwd, a.p, sr, now, uuid), now)

UpdateKeysStatus ==
    \E a \in PathInputs, rs \in ResultLists, now \in Now :
        Does(Call("updateKeysStatus", a, NoneScan, rs, NoneKey),
             updateKeysStatus(TheFiles, a.cwd, a.p, rs, now), now)

UpdateKeyStatus ==
    \E a \in PathInputs, r \in TestResults, now \in Now :
        Does(Call("updateKeyStatus", a, NoneScan, <<r>>, r.fullKey),
             updateKeyStatus(TheFiles, a.cwd, a.p, r.fullKey, r, now), now)

DeleteProject ==
    \E a \in PathInputs, now \in Now :
        Does(Call("deleteProject", a, NoneScan, <<>>, NoneKey),
             deleteProject(TheFiles, a.cwd, a.p, now), now)

AddBannedKey ==
    \E k \in Keys, now \in Now :
        Does(Call("addBannedKey", NonePath, NoneScan, <<>>, k),
             addBannedKey(TheFiles, k, now), now)

RemoveBannedKey ==
    \E k \in Keys, now \in Now :
        Does(Call("removeBannedKey", NonePath, NoneScan, <<>>, k),
             removeBannedKey(TheFiles, k, now), now)

IsBanned ==
    \E k \in Keys, now \in Now :
        Does(Call("isBanned", NonePath, NoneScan, <<>>, k),
             isBanned(TheFiles, k, now), now)

GetProject ==
    \E a \in PathInputs, now \in Now :
        Does(Call("getProject", a, NoneScan, <<>>, NoneKey),
             getProject(TheFiles, a.cwd, a.p, now), now)

GetAllProjects ==
    \E now \in Now :
        LET o == getAllProjects(TheFiles, now) IN
        Does(Call("getAllProjects", NonePath, NoneScan, <<>>, NoneKey),
             Outcome(o.f, IF o.ok THEN RetNum(Len(o.projects)) ELSE RetThrow),
             now)

GetBannedKeys ==
    \E now \in Now :
        Does(Call("getBannedKeys", NonePath, NoneScan, <<>>, NoneKey),
             getBannedKeys(TheFiles, now), now)

GetDatabaseStats ==
    \E now \in Now :
        Does(Call("getDatabaseStats", NonePath, NoneScan, <<>>, NoneKey),
             getDatabaseStats(TheFiles, now), now)

ClearDatabase ==
    \E now \in Now :
        Does(Call("clearDatabase", NonePath, NoneScan, <<>>, NoneKey),
             clearDatabase(TheFiles, now), now)

Init ==
    /\ storeFile = Absent
    /\ backupFile = Absent
    /\ tmpFile = Absent
    /\ clock = 0
    /\ call = Call("none", NonePath, NoneScan, <<>>, NoneKey)
    /\ ret = RetVoid
    /\ proc = [p \in Procs |-> IdleProc]
    /\ test = IdleTest
    /\ scan = IdleScan
    /\ cmd = IdleCmd

Next ==
    \/ SaveProject
    \/ UpdateKeysStatus
    \/ UpdateKeyStatus
    \/ DeleteProject
    \/ AddBannedKey
    \/ RemoveBannedKey
    \/ IsBanned
    \/ GetProject
    \/ GetAllProjects
    \/ GetBannedKeys
    \/ GetDatabaseStats
    \/ ClearDatabase

vars == <<storeVars, proc, test, scan, cmd>>

Spec == Init /\ [][Next]_vars

(***************************************************************************)
(* SpecWrite: the calls step by step.  The files start in any state a      *)
(* user's home directory can be in: missing, damaged, or holding an        *)
(* earlier document; a process may stop at any step.                       *)
(***************************************************************************)
StepOps == {"isBanned", "addBannedKey", "removeBannedKey", "clearDatabase"}

InitDocs ==
    {[version |-> v, createdAt |-> 0, updatedAt |-> 0, projects |-> <<>>,
      bannedKeys |-> b] : v \in {DB_VERSION, OtherVersion}, b \in {<<>>, <<"k1">>}}

InitContents ==
    {Absent, Garbage, JsonNull, JsonScalar} \cup {Full(d) : d \in InitDocs}
        \cup {Part(d) : d \in InitDocs}

Others == UNCHANGED <<call, ret, test, scan, cmd>>

\* writeDatabase(db) is entered: updatedAt is stamped
EnterWrite(p, db, cont) ==
    proc' = [proc EXCEPT ![p].pc = "w_access",
                         ![p].db = [db EXCEPT !.updatedAt = proc[p].t],
                         ![p].cont = cont,
                         ![p].snap = storeFile,
                         ![p].snapBackup = backupFile]

\* a process starts a call
Start(p) ==
    /\ proc[p].pc = "idle"
    /\ clock < MaxTime
    /\ clock' = clock + 1
    /\ \E op \in StepOps, k \in Keys :
          IF op = "clearDatabase"
          THEN proc' = [proc EXCEPT ![p] =
                    [IdleProc EXCEPT !.pc = "w_access", !.op = op, !.t = clock + 1,
                                     !.db = createEmptyDatabase(clock + 1),
                                     !.cont = "done", !.snap = storeFile,
                                     !.snapBackup = backupFile]]
          ELSE proc' = [proc EXCEPT ![p] =
                    [IdleProc EXCEPT !.pc = "read", !.op = op, !.key = k,
                                     !.t = clock + 1]]
    /\ UNCHANGED <<storeFile, backupFile, tmpFile>>
    /\ Others

\* initDatabase: readDatabase, then the !db and version tests
ReadStep(p) ==
    /\ proc[p].pc = "read"
    /\ LET r == readDatabase(storeFile, backupFile)
           q == [proc EXCEPT ![p].rdStore = storeFile, ![p].rdBackup = backupFile]
       IN IF r.k = "null"
          THEN proc' = [q EXCEPT ![p].pc = "w_access",
                                 ![p].db = createEmptyDatabase(proc[p].t),
                                 ![p].cont = "op",
                                 ![p].snap = storeFile,
                                 ![p].snapBackup = backupFile]
          ELSE IF r.k = "scalar"
          THEN proc' = [q EXCEPT ![p].pc = "idle", ![p].ret = RetThrow,
                                 ![p].endedAt = "read"]
          ELSE IF r.d.version # DB_VERSION
          THEN proc' = [q EXCEPT ![p].pc = "w_access",
                                 ![p].db = [r.d EXCEPT !.version = DB_VERSION,
                                                       !.updatedAt = proc[p].t],
                                 ![p].cont = "op",
                                 ![p].snap = storeFile,
                                 ![p].snapBackup = backupFile]
          ELSE proc' = [q EXCEPT ![p].pc = "op", ![p].db = r.d]
    /\ UNCHANGED <<storeFile, backupFile, tmpFile, clock>>
    /\ Others

\* the body of the call, on the database initDatabase returned
OpStep(p) ==
    /\ proc[p].pc = "op"
    /\ LET db == proc[p].db
           k == proc[p].key
           done(r) == [proc EXCEPT ![p].pc = "idle", ![p].ret = r, ![p].endedAt = "op"]
       IN CASE proc[p].op = "isBanned" ->
                 proc' = done(RetBool(k \in Range(db.bannedKeys)))
            [] proc[p].op = "addBannedKey" ->
                 IF BanCheck(db.bannedKeys, k) THEN proc' = done(RetBool(FALSE))
                 ELSE EnterWrite(p, [db EXCEPT !.bannedKeys = Append(@, k)], "true")
            [] proc[p].op = "removeBannedKey" ->
                 IF Len(RemoveBanned(db.bannedKeys, k)) < Len(db.bannedKeys)
                 THEN EnterWrite(p, [db EXCEPT !.bannedKeys = RemoveBanned(@, k)], "true")
                 ELSE proc' = done(RetBool(FALSE))
    /\ UNCHANGED <<storeFile, backupFile, tmpFile, clock>>
    /\ Others

\* fs.access(DB_FILE), and fs.copyFile(DB_FILE, DB_BACKUP_FILE) started
AccessStep(p) ==
    /\ proc[p].pc = "w_access"
    /\ IF storeFile.k # "absent"
       THEN /\ backupFile' = Truncated(storeFile)
            /\ proc' = [proc EXCEPT ![p].pc = "w_copying"]
       ELSE /\ UNCHANGED backupFile
            /\ proc' = [proc EXCEPT ![p].pc = "w_write"]
    /\ UNCHANGED <<storeFile, tmpFile, clock>>
    /\ Others

\* fs.copyFile completed
CopyStep(p) ==
    /\ proc[p].pc = "w_copying"
    /\ backupFile' = storeFile
    /\ proc' = [proc EXCEPT ![p].pc = "w_write"]
    /\ UNCHANGED <<storeFile, tmpFile, clock>>
    /\ Others

\* the file of that name takes the content c
SetFile(where, c) ==
    CASE where = "tmp" -> tmpFile' = c /\ UNCHANGED storeFile
      [] where = "store" -> storeFile' = c /\ UNCHANGED tmpFile
      [] OTHER -> UNCHANGED <<storeFile, tmpFile>>

\* the processes in the middle of fs.writeFile whose descriptor is on the file
WritingTo(where) == {q \in Procs : proc[q].pc = "w_writing" /\ proc[q].fd = where}

\* fs.writeFile(tempFile, jsonData) started: the file is opened and
\* truncated and holds part of the text
WriteStep(p) ==
    /\ proc[p].pc = "w_write"
    /\ SetFile(TempFile, Part(proc[p].db))
    /\ proc' = [q \in Procs |->
                  IF q = p
                  THEN [proc[p] EXCEPT !.pc = "w_writing", !.fd = TempFile,
                                       !.raced = WritingTo(TempFile) # {}]
                  ELSE IF q \in WritingTo(TempFile)
                  THEN [proc[q] EXCEPT !.raced = TRUE]
                  ELSE proc[q]]
    /\ UNCHANGED <<backupFile, clock>>
    /\ Others

\* fs.writeFile completed: the file holds the text, or a mix of two texts
\* when two processes wrote to it at once
WrittenStep(p) ==
    /\ proc[p].pc = "w_writing"
    /\ \E c \in {Full(proc[p].db)} \cup (IF proc[p].raced THEN {Garbage} ELSE {}) :
          SetFile(proc[p].fd, c)
    /\ proc' = [proc EXCEPT ![p].pc = "w_rename"]
    /\ UNCHANGED <<backupFile, clock>>
    /\ Others

\* fs.writeFile failed: the catch block unlinks the temp file and rethrows
WriteFails(p) ==
    /\ proc[p].pc = "w_writing"
    /\ IF TempFile = "tmp"
       THEN tmpFile' = Absent /\ UNCHANGED storeFile
       ELSE storeFile' = Absent /\ UNCHANGED tmpFile
    /\ proc' = [q \in Procs |->
                  IF q = p
                  THEN [proc[p] EXCEPT !.pc = "idle", !.ret = RetThrow,
                                       !.endedAt = "w_writing"]
                  ELSE IF q \in WritingTo(TempFile)
                  THEN [proc[q] EXCEPT !.fd = "gone"]
                  ELSE proc[q]]
    /\ UNCHANGED <<backupFile, clock>>
    /\ Others

\* fs.rename(tempFile, DB_FILE), and the return to the caller; with no temp
\* file the rename fails, the catch block finds nothing to unlink and rethrows
RenameStep(p) ==
    /\ proc[p].pc = "w_rename"
    /\ IF TempFile = "tmp" /\ tmpFile.k = "absent"
       THEN /\ proc' = [proc EXCEPT ![p].pc = "idle", ![p].ret = RetThrow,
                                    ![p].endedAt = "rename_failed"]
            /\ UNCHANGED <<storeFile, tmpFile>>
       ELSE /\ IF TempFile = "tmp"
               THEN storeFile' = tmpFile /\ tmpFile' = Absent
               ELSE UNCHANGED <<storeFile, tmpFile>>
            /\ proc' = [q \in Procs |->
                          IF q = p
                          THEN IF proc[p].cont = "op"
                               THEN [proc[p] EXCEPT !.pc = "op"]
                               ELSE [proc[p] EXCEPT
                                        !.pc = "idle",
                                        !.ret = IF proc[p].cont = "true"
                                                THEN RetBool(TRUE) ELSE RetVoid,
                                        !.endedAt = "returned"]
                          ELSE IF q \in WritingTo("tmp") /\ TempFile = "tmp"
                          THEN [proc[q] EXCEPT !.fd = "store"]
                          ELSE proc[q]]
    /\ UNCHANGED <<backupFile, clock>>
    /\ Others

\* the process stops (killed, power lost) before its next step
Crash(p) ==
    /\ proc[p].pc # "idle"
    /\ proc' = [proc EXCEPT ![p].pc = "idle", ![p].endedAt = proc[p].pc]
    /\ UNCHANGED <<storeFile, backupFile, tmpFile, clock>>
    /\ Others

InitWrite ==
    /\ storeFile \in InitContents
    /\ backupFile \in InitContents
    /\ tmpFile \in {Absent, Garbage}
    /\ clock = 0
    /\ call = Call("none", NonePath, NoneScan, <<>>, NoneKey)
    /\ ret = RetVoid
    /\ proc = [p \in Procs |-> IdleProc]
    /\ test = IdleTest
    /\ scan = IdleScan
    /\ cmd = IdleCmd

Writers == {1}

NextWrite ==
    \E p \in Writers :
        \/ Start(p)
        \/ ReadStep(p)
        \/ OpStep(p)
        \/ AccessStep(p)
        \/ CopyStep(p)
        \/ WriteStep(p)
        \/ WrittenStep(p)
        \/ WriteFails(p)
        \/ RenameStep(p)
        \/ Crash(p)

SpecWrite == InitWrite /\ [][NextWrite]_vars

(***************************************************************************)
(* SpecRace: two processes run calls at once, their steps interleaved.     *)
(* The store starts absent or holding a document.                          *)
(***************************************************************************)
InitRace ==
    /\ storeFile \in {Absent} \cup {Full(d) : d \in {e \in InitDocs : e.version = DB_VERSION}}
    /\ backupFile = Absent
    /\ tmpFile = Absent
    /\ clock = 0
    /\ call = Call("none", NonePath, NoneScan, <<>>, NoneKey)
    /\ ret = RetVoid
    /\ proc = [p \in Procs |-> IdleProc]
    /\ test = IdleTest
    /\ scan = IdleScan
    /\ cmd = IdleCmd

\* each of the two processes runs one call
StartOnce(p) == proc[p].endedAt = "none" /\ Start(p)

NextRace ==
    \E p \in Procs :
        \/ StartOnce(p)
        \/ ReadStep(p)
        \/ OpStep(p)
        \/ AccessStep(p)
        \/ CopyStep(p)
        \/ WriteStep(p)
        \/ WrittenStep(p)
        \/ WriteFails(p)
        \/ RenameStep(p)

SpecRace == InitRace /\ [][NextRace]_vars

(***************************************************************************)
(* SpecTest: one testKeys call step by step: the loop over the keys, the   *)
(* checker of each key, and requestWithRetry's attempts and backoff waits. *)
(***************************************************************************)
NotStore == UNCHANGED <<storeFile, backupFile, tmpFile, call, ret, proc, scan, cmd>>

\* a loop that awaits the delay after the last key too
PushThenDelay(t, testResult) ==
    [t EXCEPT !.results = Append(@, Pushed(t.keysArray[t.i], testResult)),
              !.result = testResult,
              !.req = "none",
              !.events = Append(@, Event("end", t.i)),
              !.pc = "delay"]

\* results.push(...), then the loop's i < keysArray.length - 1 test
Push(t, testResult) ==
    [t EXCEPT !.results = Append(@, Pushed(t.keysArray[t.i], testResult)),
              !.result = testResult,
              !.req = "none",
              !.events = Append(@, Event("end", t.i)),
              !.pc = IF t.i < Len(t.keysArray) THEN "delay" ELSE "loop",
              !.i = IF t.i < Len(t.keysArray) THEN @ ELSE @ + 1]

\* testKeys(keysArray) is called
StartTestKeys ==
    /\ test.pc = "idle"
    /\ \E ks \in KeyLists : test' = [IdleTest EXCEPT !.pc = "loop", !.keysArray = ks]
    /\ UNCHANGED clock
    /\ NotStore

\* the loop's body for a key whose service has no tester
NoTester ==
    /\ test.pc = "loop"
    /\ test.i <= Len(test.keysArray)
    /\ TesterOf(test.keysArray[test.i].service) = Undefined
    /\ clock' = clock + 1
    /\ test' = Push(Started([test EXCEPT !.first = NoOutcome]),
                    NoTesterResult(test.keysArray[test.i].service, clock + 1))
    /\ NotStore

\* the loop's body for a key whose service names an inherited property:
\* Object(fullKey) returns an object that is no result (no new Date() is
\* read); hasOwnProperty(fullKey) throws for want of a this, and the catch
\* block makes the result
InheritedTester ==
    /\ test.pc = "loop"
    /\ test.i <= Len(test.keysArray)
    /\ TesterOf(test.keysArray[test.i].service) \in InheritedNames
    /\ IF test.keysArray[test.i].service = "constructor"
       THEN /\ test' = Push(Started([test EXCEPT !.first = NoOutcome]), NotAResult)
            /\ UNCHANGED clock
       ELSE /\ test' = Push(Started([test EXCEPT !.first = NoOutcome]),
                            TesterThrew("TypeError", clock + 1))
            /\ clock' = clock + 1
    /\ NotStore

\* the loop's body for an AWS key: testAWSKey makes no request
TestAWSKey ==
    /\ test.pc = "loop"
    /\ test.i <= Len(test.keysArray)
    /\ test.keysArray[test.i].service = "AWS"
    /\ clock' = clock + 1
    /\ test' = Push(Started([test EXCEPT !.first = NoOutcome]),
                    testAWSKey(test.keysArray[test.i].fullKey, clock + 1))
    /\ NotStore

\* the loop's body for any other key: the checker makes its result object
\* and calls requestWithRetry(config)
StartChecker ==
    /\ test.pc = "loop"
    /\ test.i <= Len(test.keysArray)
    /\ test.keysArray[test.i].service \in SERVICE_TESTERS \ {"AWS"}
    /\ clock' = clock + 1
    /\ test' = [Started(test) EXCEPT
                    !.pc = "request", !.result = NewResult(clock + 1),
                    !.req = "first", !.retries = 0, !.attempts = 0,
                    !.waits = <<>>, !.last = NoOutcome, !.first = NoOutcome]
    /\ NotStore

\* await axios({...config, timeout, validateStatus}): the request is sent
SendRequest ==
    /\ test.pc = "request"
    /\ test' = [test EXCEPT !.pc = "inflight", !.attempts = @ + 1, !.flying = @ + 1]
    /\ UNCHANGED clock
    /\ NotStore

\* a response arrives: retry after the backoff on 429, or return it
Respond ==
    /\ test.pc = "inflight"
    /\ \E response \in Responses :
          IF response.status = 429 /\ RetryAllowed(test.retries)
          THEN test' = [test EXCEPT !.pc = "backoff", !.last = response,
                                    !.flying = @ - 1,
                                    !.waits = Append(@, getBackoffDelay(test.retries))]
          ELSE test' = [test EXCEPT !.pc = "response", !.last = response,
                                    !.flying = @ - 1,
                                    !.first = IF test.req = "first" THEN response ELSE @]
    /\ UNCHANGED clock
    /\ NotStore

\* axios throws: retry after the backoff on ECONNRESET, or rethrow
RequestFails ==
    /\ test.pc = "inflight"
    /\ \E code \in ErrorCodes :
          IF RetryAllowed(test.retries) /\ code = "ECONNRESET"
          THEN test' = [test EXCEPT !.pc = "backoff", !.last = Failure(code),
                                    !.flying = @ - 1,
                                    !.waits = Append(@, getBackoffDelay(test.retries))]
          ELSE test' = [test EXCEPT !.pc = "thrown", !.last = Failure(code),
                                    !.flying = @ - 1,
                                    !.first = IF test.req = "first" THEN Failure(code) ELSE @]
    /\ UNCHANGED clock
    /\ NotStore

\* await delay(backoffDelay) is over: requestWithRetry(config, retries + 1)
BackoffElapsed ==
    /\ test.pc = "backoff"
    /\ test' = [test EXCEPT !.pc = "request", !.retries = @ + 1]
    /\ UNCHANGED clock
    /\ NotStore

\* requestWithRetry returned a response to the checker
HandleResponse ==
    /\ test.pc = "response"
    /\ LET sv == test.keysArray[test.i].service IN
       IF test.req = "first"
       THEN LET a == AfterFirst(sv, test.result, test.last) IN
            IF a.usage
            THEN test' = [test EXCEPT !.pc = "request", !.result = a.result,
                                      !.req = "usage", !.retries = 0, !.attempts = 0,
                                      !.waits = <<>>, !.last = NoOutcome]
            ELSE test' = Push(test, a.result)
       ELSE test' = Push(test,
                IF test.last.status = 200 /\ test.last.body # "empty"
                THEN WithFields(test.result, {"usage"}) ELSE test.result)
    /\ UNCHANGED clock
    /\ NotStore

\* requestWithRetry threw: the checker's catch block (the usage request's
\* catch block ignores the error)
HandleThrow ==
    /\ test.pc = "thrown"
    /\ test' = Push(test, IF test.req = "first"
                          THEN Caught(test.result, test.last.code)
                          ELSE test.result)
    /\ UNCHANGED clock
    /\ NotStore

\* await delay(RATE_LIMIT_DELAY) between two keys is over
DelayElapsed ==
    /\ test.pc = "delay"
    /\ test' = [test EXCEPT !.pc = "loop", !.i = @ + 1, !.paused = @ + RATE_LIMIT_DELAY,
                            !.events = Append(@, Event("delay", RATE_LIMIT_DELAY))]
    /\ UNCHANGED clock
    /\ NotStore

\* the loop is over: return results
Finish ==
    /\ test.pc = "loop"
    /\ test.i > Len(test.keysArray)
    /\ test' = [test EXCEPT !.pc = "done"]
    /\ UNCHANGED clock
    /\ NotStore

InitTest == Init

NextTest ==
    \/ StartTestKeys
    \/ NoTester
    \/ InheritedTester
    \/ TestAWSKey
    \/ StartChecker
    \/ SendRequest
    \/ Respond
    \/ RequestFails
    \/ BackoffElapsed
    \/ HandleResponse
    \/ HandleThrow
    \/ DelayElapsed
    \/ Finish

SpecTest == InitTest /\ [][NextTest]_vars

\* every request is answered or times out, and every timer fires
SpecTestFair == SpecTest /\ WF_vars(NextTest)

(***************************************************************************)
(* SpecScan: one scanDirectory call step by step.                          *)
(***************************************************************************)
NotScan == UNCHANGED <<storeFile, backupFile, tmpFile, clock, call, ret, proc, test, cmd>>

\* scanDirectory(dirPath) is called and glob(...) awaited; the directory
\* holds the files of the listing
StartScan ==
    /\ scan.pc = "idle"
    /\ \E fs \in FileLists : scan' = [IdleScan EXCEPT !.pc = "glob", !.listing = fs]
    /\ NotScan

\* glob throws: the catch block returns what was gathered
GlobFails ==
    /\ scan.pc = "glob"
    /\ scan' = [scan EXCEPT !.pc = "done",
                            !.result = ReturnedFromCatch(scan.totalFiles, scan.allKeys,
                                                         "glob error")]
    /\ NotScan

\* glob returns the listing: the ignored files are filtered out and counted
GlobReturns ==
    /\ scan.pc = "glob"
    /\ LET keep == {f \in Range(scan.listing) :
                      ~shouldIgnoreFile(ScanRoot \o f.rel,
                                        DEFAULT_IGNORE_DIRS \cup DEFAULT_IGNORE_FILES)}
           files == SelectSeqBy(scan.listing, keep)
       IN scan' = [scan EXCEPT !.pc = "batch", !.files = files, !.globbed = TRUE,
                               !.totalFiles = TotalFiles(files), !.i = 1]
    /\ NotScan

\* a batch that takes every file left
BatchToEnd(files, i) == i..Len(files)

\* files.slice(i, i + BATCH_SIZE), as the places of the files
Batch(files, i) == i..Min(i + BatchSize - 1, Len(files))

\* the loop's body begins: the reads of the batch are all issued
StartBatch ==
    /\ scan.pc = "batch"
    /\ scan.i <= Len(scan.files)
    /\ scan' = [scan EXCEPT !.pc = "reading",
                            !.pending = Batch(scan.files, scan.i),
                            !.got = <<>>, !.completed = <<>>]
    /\ NotScan

\* one scanFile of the batch completes, in any order
ReadCompletes ==
    /\ scan.pc = "reading"
    /\ \E f \in scan.pending :
          scan' = [scan EXCEPT !.pending = @ \ {f},
                               !.got = [n \in (DOMAIN scan.got) \cup {f} |->
                                           IF n = f THEN scanFile(scan.files[f])
                                           ELSE scan.got[n]],
                               !.completed = Append(@, f)]
    /\ NotScan

\* Promise.all resolves: the results are pushed to allKeys
BatchDone ==
    /\ scan.pc = "reading"
    /\ scan.pending = {}
    /\ LET last == Min(scan.i + BatchSize - 1, Len(scan.files))
       IN scan' = [scan EXCEPT !.pc = "batch",
                               !.allKeys = @ \o Flatten(BatchResults(scan.i, last, scan.completed),
                                                        scan.got),
                               !.i = @ + BatchSize]
    /\ NotScan

\* the loop is over: the deduplicated keys are returned
ScanReturns ==
    /\ scan.pc = "batch"
    /\ scan.i > Len(scan.files)
    /\ scan' = [scan EXCEPT !.pc = "done",
                            !.result = ReturnedKeys(scan.totalFiles, scan.allKeys)]
    /\ NotScan

InitScan == Init

NextScan ==
    \/ StartScan
    \/ GlobFails
    \/ GlobReturns
    \/ StartBatch
    \/ ReadCompletes
    \/ BatchDone
    \/ ScanReturns

SpecScan == InitScan /\ [][NextScan]_vars

(***************************************************************************)
(* SpecCmd: one run of "apigraveyard scan <directory>", with or without    *)
(* --test, on a store that is absent or holds a project scanned and tested *)
(* before.  Each action is one awaited call of the command's action.       *)
(***************************************************************************)
NotCmd == UNCHANGED <<call, ret, proc, test, scan>>

\* a project saved and tested by an earlier run
EarlierProject ==
    [id |-> 1, name |-> "p", path |-> <<"p">>, scannedAt |-> 1, totalFiles |-> 1,
     keys |-> <<[service |-> "OpenAI", fullKey |-> "k1", status |-> "ERROR",
                 lastTested |-> 1, quotaInfo |-> "dTested", lastError |-> "ECONNABORTED"],
                [service |-> "AWS", fullKey |-> "k2", status |-> "VALID",
                 lastTested |-> 1, quotaInfo |-> "dTested", lastError |-> NoError]>>]

EarlierDoc ==
    [version |-> DB_VERSION, createdAt |-> 1, updatedAt |-> 1,
     projects |-> <<EarlierProject>>, bannedKeys |-> <<>>]

\* the store's files become those the call left
Left(f) ==
    /\ storeFile' = f.store
    /\ backupFile' = f.backup
    /\ tmpFile' = f.tmp

\* the command's catch block: process.exit(EXIT_CODES.ERROR)
Failed(c) == [c EXCEPT !.pc = "exit", !.code = "ERROR"]

\* process.exit(EXIT_CODES.SUCCESS)
Succeeded(c) == [c EXCEPT !.pc = "exit", !.code = "SUCCESS"]

\* const dirPath = path.resolve(directory)
DirPath(c) == AbsPath(PathResolve(c.dir.cwd, c.dir.p))

\* the action is entered with a directory that exists
CmdStart ==
    /\ cmd.pc = "idle"
    /\ \E a \in PathInputs, t \in BOOLEAN :
          cmd' = [IdleCmd EXCEPT !.pc = "scan", !.dir = a, !.testOption = t]
    /\ UNCHANGED <<storeFile, backupFile, tmpFile, clock>>
    /\ NotCmd

\* await scanDirectory(dirPath, {...})
CmdScan ==
    /\ cmd.pc = "scan"
    /\ \E r \in {scanDirectory(DirPath(cmd).segs, fs) : fs \in FileLists}
                    \cup {ReturnedFromCatch(0, <<>>, "glob error")} :
          cmd' = [cmd EXCEPT !.pc = "banned", !.scanResults = r]
    /\ UNCHANGED <<storeFile, backupFile, tmpFile, clock>>
    /\ NotCmd

\* the loop of await isBanned(key.fullKey), then the test of
\* scanResults.keysFound.length
CmdBanned ==
    /\ cmd.pc = "banned"
    /\ LET o == BannedLoop(TheFiles, cmd.scanResults.keysFound, clock + 1) IN
       /\ Left(o.f)
       /\ cmd' = IF o.ret = RetThrow THEN Failed(cmd)
                 ELSE IF Len(cmd.scanResults.keysFound) > 0
                 THEN [cmd EXCEPT !.pc = "save"]
                 ELSE Succeeded(cmd)
    /\ clock' = clock + Len(cmd.scanResults.keysFound)
    /\ NotCmd

\* await saveProject(dirPath, scanResults), then the test of options.test
CmdSave ==
    /\ cmd.pc = "save"
    /\ \E uuid \in FreshIds(TheFiles, <<>>, DirPath(cmd)) :
          LET o == saveProject(TheFiles, <<>>, DirPath(cmd), cmd.scanResults,
                               clock + 1, uuid) IN
          /\ Left(o.f)
          /\ cmd' = IF o.ret = RetThrow THEN Failed(cmd)
                    ELSE IF cmd.testOption THEN [cmd EXCEPT !.pc = "test"]
                    ELSE Succeeded(cmd)
    /\ clock' = clock + 1
    /\ NotCmd

\* what the checks of the keys can end with: testAWSKey makes no request
RequestOutcomes(keysFound) ==
    {os \in [1..Len(keysFound) -> Outcomes \cup {NoOutcome}] :
        \A j \in 1..Len(keysFound) :
            (os[j] = NoOutcome) <=> (keysFound[j].service = "AWS")}

\* await testKeys(scanResults.keysFound, {showSpinner: true})
CmdTest ==
    /\ cmd.pc = "test"
    /\ \E os \in RequestOutcomes(cmd.scanResults.keysFound), usage \in BOOLEAN :
          cmd' = [cmd EXCEPT !.pc = "update", !.outcomes = os,
                             !.testResults = testKeys(cmd.scanResults.keysFound,
                                                      os, usage, clock)]
    /\ clock' = clock + Len(cmd.scanResults.keysFound)
    /\ UNCHANGED <<storeFile, backupFile, tmpFile>>
    /\ NotCmd

\* await updateKeysStatus(dirPath, testResults), then process.exit
CmdUpdate ==
    /\ cmd.pc = "update"
    /\ LET results == [j \in 1..Len(cmd.testResults) |-> StoreResult(cmd.testResults[j])]
           o == updateKeysStatus(TheFiles, <<>>, DirPath(cmd), results, clock + 1)
       IN /\ Left(o.f)
          /\ cmd' = IF o.ret = RetThrow THEN Failed(cmd)
                    ELSE [Succeeded(cmd) EXCEPT !.pc = "updated"]
    /\ clock' = clock + 1
    /\ NotCmd

InitCmd ==
    /\ storeFile \in {Absent, JsonScalar, Full(EarlierDoc)}
    /\ backupFile = Absent
    /\ tmpFile = Absent
    /\ clock = 1
    /\ call = Call("none", NonePath, NoneScan, <<>>, NoneKey)
    /\ ret = RetVoid
    /\ proc = [p \in Procs |-> IdleProc]
    /\ test = IdleTest
    /\ scan = IdleScan
    /\ cmd = IdleCmd

NextCmd ==
    \/ CmdStart
    \/ CmdScan
    \/ CmdBanned
    \/ CmdSave
    \/ CmdTest
    \/ CmdUpdate

SpecCmd == InitCmd /\ [][NextCmd]_vars

(***************************************************************************)
(* SpecRoot: one directory tree scanned at two places of the file system.  *)
(***************************************************************************)
MaxTreeFiles == 2          \* files of the tree

\* the trees: the lists glob may return for them, by the paths below the
\* root
TreeLists ==
    UNION {{fs \in [1..m -> ScanFiles] :
                \A a, b \in 1..m : a # b => fs[a].rel # fs[b].rel} : m \in 0..MaxTreeFiles}

\* the absolute paths a tree may be placed at
Roots ==
    {<<"home", "proj">>, <<"srv", "proj">>, <<"home", "build", "proj">>,
     <<"home", "rebuild">>, <<"dist", "proj">>}

\* pc: the place in the run.  listing: the tree.  rootA, rootB: the two
\* places.  resultA, resultB: what scanDirectory returned for each.
IdleRoot ==
    [pc |-> "idle", listing |-> <<>>, rootA |-> <<>>, rootB |-> <<>>,
     resultA |-> NoScanResult, resultB |-> NoScanResult]

\* the tree is placed at two different roots
PlaceTree ==
    /\ cmd.pc = "idle"
    /\ \E fs \in TreeLists, a \in Roots :
        \E b \in Roots \ {a} :
          cmd' = [cmd EXCEPT !.pc = "placed", !.listing = fs, !.rootA = a,
                             !.rootB = b]
    /\ UNCHANGED <<storeFile, backupFile, tmpFile, clock>>
    /\ NotCmd

\* await scanDirectory(rootA)
ScanFirst ==
    /\ cmd.pc = "placed"
    /\ cmd' = [cmd EXCEPT !.pc = "scannedA",
                          !.resultA = scanDirectory(cmd.rootA, cmd.listing)]
    /\ UNCHANGED <<storeFile, backupFile, tmpFile, clock>>
    /\ NotCmd

\* await scanDirectory(rootB)
ScanSecond ==
    /\ cmd.pc = "scannedA"
    /\ cmd' = [cmd EXCEPT !.pc = "scannedB",
                          !.resultB = scanDirectory(cmd.rootB, cmd.listing)]
    /\ UNCHANGED <<storeFile, backupFile, tmpFile, clock>>
    /\ NotCmd

InitRoot ==
    /\ storeFile = Absent
    /\ backupFile = Absent
    /\ tmpFile = Absent
    /\ clock = 1
    /\ call = Call("none", NonePath, NoneScan, <<>>, NoneKey)
    /\ ret = RetVoid
    /\ proc = [p \in Procs |-> IdleProc]
    /\ test = IdleTest
    /\ scan = IdleScan
    /\ cmd = IdleRoot

NextRoot ==
    \/ PlaceTree
    \/ ScanFirst
    \/ ScanSecond

SpecRoot == InitRoot /\ [][NextRoot]_vars

(***************************************************************************)
(* SpecClean: one run of "apigraveyard clean" on a store that holds        *)
(* projects whose keys were tested.  Each action is one awaited call.      *)
(***************************************************************************)
MaxProjects == 2           \* projects in the store the clean command runs on

\* key records as updateKeysStatus leaves them, and as saveProject does
TestedKeys ==
    {[service |-> ServiceOf(k), fullKey |-> k, status |-> st,
      lastTested |-> IF st = NullStatus THEN NullTime ELSE 1,
      quotaInfo |-> IF st = NullStatus THEN EmptyObject ELSE "dTested",
      lastError |-> NoError] :
        k \in {"k1", "k2"}, st \in {NullStatus, "VALID", "INVALID", "EXPIRED"}}

TestedKeyLists ==
    {ks \in UNION {[1..m -> TestedKeys] : m \in 0..2} :
        \A a, b \in 1..Len(ks) : a # b => ks[a].fullKey # ks[b].fullKey}

ProjectNames == <<"p", "q", "r", "s">>

\* a store holding up to MaxProjects projects, of distinct paths and ids
CleanDocs ==
    {[version |-> DB_VERSION, createdAt |-> 1, updatedAt |-> 1, bannedKeys |-> <<>>,
      projects |-> [n \in 1..m |->
                      [id |-> n, name |-> ProjectNames[n], path |-> <<ProjectNames[n]>>,
                       scannedAt |-> 1, totalFiles |-> 1, keys |-> kss[n]]]] :
        m \in 0..MaxProjects, kss \in [1..MaxProjects -> TestedKeyLists]}

IdleClean ==
    [pc |-> "idle", force |-> FALSE, projects |-> <<>>, i |-> 1, removedCount |-> 0,
     code |-> "none"]

\* key.status === KeyStatus.INVALID || key.status === KeyStatus.EXPIRED
ToRemove(key) == key.status \in {"INVALID", "EXPIRED"}

\* totalToRemove after the counting loops
TotalToRemove(projects) ==
    Cardinality(UNION {{<<n, j>> : j \in {x \in 1..Len(projects[n].keys) :
                                               ToRemove(projects[n].keys[x])}} :
                          n \in 1..Len(projects)})

\* project.keys.filter(k => k.status !== INVALID && k.status !== EXPIRED)
KeptKeys(keys) == SelectSeqBy(keys, {k \in Range(keys) : ~ToRemove(k)})

\* the action is entered: await initDatabase()
CleanInit ==
    /\ cmd.pc = "idle"
    /\ \E force \in BOOLEAN :
          LET i == initDatabase(TheFiles, clock + 1) IN
          /\ Left(i.f)
          /\ cmd' = IF i.ok THEN [IdleClean EXCEPT !.pc = "list", !.force = force]
                    ELSE Failed(IdleClean)
    /\ clock' = clock + 1
    /\ NotCmd

\* await getAllProjects(), the counting loops and the two early exits
CleanList ==
    /\ cmd.pc = "list"
    /\ LET o == getAllProjects(TheFiles, clock + 1) IN
       /\ Left(o.f)
       /\ cmd' = IF ~o.ok THEN Failed(cmd)
                 ELSE IF Len(o.projects) = 0 \/ TotalToRemove(o.projects) = 0
                 THEN Succeeded(cmd)
                 ELSE [cmd EXCEPT !.projects = o.projects,
                                  !.pc = IF cmd.force THEN "save" ELSE "confirm"]
    /\ clock' = clock + 1
    /\ NotCmd

\* await confirm(...): the answer is y or yes, or anything else
CleanConfirm ==
    /\ cmd.pc = "confirm"
    /\ \E confirmed \in BOOLEAN :
          cmd' = IF confirmed THEN [cmd EXCEPT !.pc = "save"] ELSE Succeeded(cmd)
    /\ UNCHANGED <<storeFile, backupFile, tmpFile, clock>>
    /\ NotCmd

\* the removing loop's body for one project: the filter, then
\* await saveProject(project.path, {totalFiles, keysFound: project.keys})
CleanSave ==
    /\ cmd.pc = "save"
    /\ cmd.i <= Len(cmd.projects)
    /\ LET project == cmd.projects[cmd.i]
           kept == KeptKeys(project.keys)
       IN \E uuid \in FreshIds(TheFiles, <<>>, AbsPath(project.path)) :
             LET o == saveProject(TheFiles, <<>>, AbsPath(project.path),
                                  [totalFiles |-> project.totalFiles, keysFound |-> kept],
                                  clock + 1, uuid) IN
             /\ Left(o.f)
             /\ cmd' = IF o.ret = RetThrow THEN Failed(cmd)
                       ELSE [cmd EXCEPT !.i = @ + 1,
                                        !.removedCount = @ + Len(project.keys) - Len(kept)]
    /\ clock' = clock + 1
    /\ NotCmd

\* the loop is over: process.exit(EXIT_CODES.SUCCESS)
CleanDone ==
    /\ cmd.pc = "save"
    /\ cmd.i > Len(cmd.projects)
    /\ cmd' = [Succeeded(cmd) EXCEPT !.pc = "cleaned"]
    /\ UNCHANGED <<storeFile, backupFile, tmpFile, clock>>
    /\ NotCmd

InitClean ==
    /\ storeFile \in {Absent} \cup {Full(d) : d \in CleanDocs}
    /\ backupFile = Absent
    /\ tmpFile = Absent
    /\ clock = 1
    /\ call = Call("none", NonePath, NoneScan, <<>>, NoneKey)
    /\ ret = RetVoid
    /\ proc = [p \in Procs |-> IdleProc]
    /\ test = IdleTest
    /\ scan = IdleScan
    /\ cmd = IdleCmd

NextClean ==
    \/ CleanInit
    \/ CleanList
    \/ CleanConfirm
    \/ CleanSave
    \/ CleanDone

SpecClean == InitClean /\ [][NextClean]_vars

(***************************************************************************)
(* SpecMask: maskKey applied to a key and to a second key of the same      *)
(* length that differs from it only between the first four and the last    *)
(* four characters.                                                        *)
(***************************************************************************)
MaxKeyLen == 10            \* length of the keys given to maskKey

KeyChars == {"a", "b"}

KeyTexts == UNION {[1..n -> KeyChars] : n \in 0..MaxKeyLen}

\* the keys of x's length with x's first four and last four characters
SameEnds(x) ==
    {y \in [1..Len(x) -> KeyChars] :
        \A n \in 1..Len(x) : (n <= 4 \/ n > Len(x) - 4) => y[n] = x[n]}

IdleMask == [pc |-> "idle", x |-> <<>>, y |-> <<>>, outX |-> <<>>, outY |-> <<>>]

MaskKeys ==
    /\ cmd.pc = "idle"
    /\ \E y \in SameEnds(cmd.x) :
          cmd' = [cmd EXCEPT !.pc = "masked", !.y = y, !.outX = maskKey(cmd.x),
                             !.outY = maskKey(y)]
    /\ UNCHANGED <<storeFile, backupFile, tmpFile, clock>>
    /\ NotCmd

InitMask ==
    /\ storeFile = Absent
    /\ backupFile = Absent
    /\ tmpFile = Absent
    /\ clock = 0
    /\ call = Call("none", NonePath, NoneScan, <<>>, NoneKey)
    /\ ret = RetVoid
    /\ proc = [p \in Procs |-> IdleProc]
    /\ test = IdleTest
    /\ scan = IdleScan
    /\ cmd \in {[IdleMask EXCEPT !.x = x] : x \in KeyTexts}

NextMask == MaskKeys

SpecMask == InitMask /\ [][NextMask]_vars

(***************************************************************************)
(* SpecExport: one run of "apigraveyard export".  The stored key records   *)
(* carry the masked key and the full key as texts; the file written is the *)
(* list of its rows, each row the named values it holds.                   *)
(***************************************************************************)
\* keys the scanner matched: texts longer than eight characters
FoundTexts ==
    {<<"s", "k", "-", "a", "b", "c", "d", "e", "f", "g">>,
     <<"h", "f", "_", "a", "a", "a", "a", "a", "a">>}

\* a key record of saveProject, tested or not: key is the scanner's maskKey(match[0])
ExportKeyRecord(text, st) ==
    [service |-> "OpenAI", key |-> maskKey(text), fullKey |-> text, status |-> st,
     lastTested |-> IF st = NullStatus THEN NullTime ELSE 1,
     quotaInfo |-> IF st = NullStatus THEN EmptyObject ELSE "dTested"]

ExportKeyLists ==
    {ks \in UNION {[1..m -> {ExportKeyRecord(t, st) : t \in FoundTexts,
                                                      st \in {NullStatus, "VALID"}}] :
                      m \in 0..2} :
        \A a, b \in 1..Len(ks) : a # b => ks[a].fullKey # ks[b].fullKey}

ExportDocs ==
    {[version |-> DB_VERSION, createdAt |-> 1, updatedAt |-> 1, bannedKeys |-> <<>>,
      projects |-> [n \in 1..m |->
                      [id |-> n, name |-> ProjectNames[n], path |-> <<ProjectNames[n]>>,
                       scannedAt |-> 1, totalFiles |-> 1, keys |-> kss[n]]]] :
        m \in 0..MaxProjects, kss \in [1..MaxProjects -> ExportKeyLists]}

\* the values --format is given
Formats == {"json", "csv", "JSON", "xml"}

\* options.format.toLowerCase()
FormatLower(format) == IF format = "JSON" THEN "json" ELSE format

\* the value undefined where a text is expected
UndefinedText == <<"undefined">>

\* a key of the export that always carries the full key
ExportedKeyAlwaysFull(k, includeFullKeys) == k

\* {...k, fullKey: options.includeFullKeys ? k.fullKey : undefined}
ExportedKey(k, includeFullKeys) ==
    [k EXCEPT !.fullKey = IF includeFullKeys THEN @ ELSE UndefinedText]

\* a row of the file: the texts it holds, by name, and its other values
Row(texts, other) == [texts |-> texts, other |-> other]

\* JSON.stringify of one exported key: a property whose value is undefined
\* is left out
StringifyKey(project, k) ==
    Row(SelectSeq(<<<<"key", k.key>>, <<"fullKey", k.fullKey>>>>,
                  LAMBDA cell : cell[2] # UndefinedText),
        <<project.name, k.service, k.status, k.lastTested, k.quotaInfo>>)

\* one row of the CSV: "Full Key" is the last column when asked for
CsvRow(project, k, includeFullKeys) ==
    Row(<<<<"Key", k.key>>>>
            \o (IF includeFullKeys THEN <<<<"Full Key", k.fullKey>>>> ELSE <<>>),
        <<project.name, k.service,
          IF k.status = NullStatus THEN "UNTESTED" ELSE k.status,
          IF k.lastTested = NullTime THEN "" ELSE "t">>)

RECURSIVE RowsOf(_, _, _)
\* the rows of the file, project by project, key by key
RowsOf(projects, format, includeFullKeys) ==
    IF projects = <<>> THEN <<>>
    ELSE LET project == Head(projects)
             rows == [j \in 1..Len(project.keys) |->
                        IF format = "json"
                        THEN StringifyKey(project, ExportedKey(project.keys[j], includeFullKeys))
                        ELSE CsvRow(project, project.keys[j], includeFullKeys)]
         IN rows \o RowsOf(Tail(projects), format, includeFullKeys)

NoFile == [written |-> FALSE, rows |-> <<>>]

IdleExport ==
    [pc |-> "idle", format |-> "json", includeFullKeys |-> FALSE, confirmed |-> FALSE,
     projects |-> <<>>, file |-> NoFile, code |-> "none"]

\* the action is entered: await initDatabase()
ExportInit ==
    /\ cmd.pc = "idle"
    /\ \E format \in Formats, include \in BOOLEAN :
          LET i == initDatabase(TheFiles, clock + 1) IN
          /\ Left(i.f)
          /\ cmd' = IF i.ok
                    THEN [IdleExport EXCEPT !.pc = "list", !.format = format,
                                            !.includeFullKeys = include]
                    ELSE Failed(IdleExport)
    /\ clock' = clock + 1
    /\ NotCmd

\* await getAllProjects(), the test for no project and the test of the format
ExportList ==
    /\ cmd.pc = "list"
    /\ LET o == getAllProjects(TheFiles, clock + 1) IN
       /\ Left(o.f)
       /\ cmd' = IF ~o.ok THEN Failed(cmd)
                 ELSE IF Len(o.projects) = 0 THEN Succeeded(cmd)
                 ELSE IF FormatLower(cmd.format) \notin {"json", "csv"}
                 THEN [cmd EXCEPT !.pc = "exit", !.code = "INVALID_ARGS"]
                 ELSE [cmd EXCEPT !.projects = o.projects,
                                  !.pc = IF cmd.includeFullKeys THEN "confirm" ELSE "write"]
    /\ clock' = clock + 1
    /\ NotCmd

\* await confirm('Are you sure you want to include full keys?')
ExportConfirm ==
    /\ cmd.pc = "confirm"
    /\ \E confirmed \in BOOLEAN :
          cmd' = IF confirmed THEN [cmd EXCEPT !.pc = "write", !.confirmed = TRUE]
                 ELSE Succeeded(cmd)
    /\ UNCHANGED <<storeFile, backupFile, tmpFile, clock>>
    /\ NotCmd

\* the content is built and await fs.writeFile(outputFile, content) writes
\* it, or fails
ExportWrite ==
    /\ cmd.pc = "write"
    /\ \E ok \in BOOLEAN :
          cmd' = IF ok
                 THEN [Succeeded(cmd) EXCEPT
                          !.pc = "written",
                          !.file = [written |-> TRUE,
                                    rows |-> RowsOf(cmd.projects, FormatLower(cmd.format),
                                                    cmd.includeFullKeys)]]
                 ELSE Failed(cmd)
    /\ clock' = clock + 1
    /\ UNCHANGED <<storeFile, backupFile, tmpFile>>
    /\ NotCmd

InitExport ==
    /\ storeFile \in {Absent} \cup {Full(d) : d \in ExportDocs}
    /\ backupFile = Absent
    /\ tmpFile = Absent
    /\ clock = 1
    /\ call = Call("none", NonePath, NoneScan, <<>>, NoneKey)
    /\ ret = RetVoid
    /\ proc = [p \in Procs |-> IdleProc]
    /\ test = IdleTest
    /\ scan = IdleScan
    /\ cmd = IdleCmd

NextExport ==
    \/ ExportInit
    \/ ExportList
    \/ ExportConfirm
    \/ ExportWrite

SpecExport == InitExport /\ [][NextExport]_vars

(***************************************************************************)
(* SpecHooks: runs of the hook installer (install-hooks.js) in one         *)
(* repository.  A file is absent or holds a text; a text is the sequence   *)
(* of its words.                                                           *)
(***************************************************************************)
MaxRuns == 4               \* runs of the installer

NoHookFile == [exists |-> FALSE, content |-> <<>>]
HookFile(content) == [exists |-> TRUE, content |-> content]

\* hooks/pre-commit of the package: the hook installHooks recognises as
\* "ours" by the text 'APIgraveyard'
SourceHook == <<"APIgraveyard", "scan">>

\* the texts a pre-commit file may hold before the installer has run: hooks
\* of other tools, one of them naming APIgraveyard, the package's hook and
\* an earlier version of it
HookTexts ==
    {<<"lint">>, <<"test">>, <<"lint", "APIgraveyard">>, SourceHook,
     <<"APIgraveyard", "scan0">>}

\* an includes that finds the name in no text
IncludesNothing(content) == FALSE

\* content.includes('APIgraveyard')
IncludesName(content) == "APIgraveyard" \in Range(content)

\* target: .git/hooks/pre-commit.  backup: .git/hooks/pre-commit.backup.
\* repo: git rev-parse finds the git root.  source: the package's hook file
\* exists.  original: target before the first run.  ran: the runs so far,
\* each "install" (returned), "exit1" (process.exit(1)) or "uninstall".
IdleHooks ==
    [pc |-> "hooks", target |-> NoHookFile, backup |-> NoHookFile, repo |-> TRUE,
     source |-> TRUE, original |-> NoHookFile, ran |-> <<>>]

\* installHooks(): the files after the run
installHooks(c) ==
    IF ~c.repo THEN [c EXCEPT !.ran = Append(@, "install")]
    ELSE IF ~c.source THEN [c EXCEPT !.ran = Append(@, "exit1")]
    ELSE IF c.target.exists /\ ~IncludesName(c.target.content)
         THEN [c EXCEPT !.backup = c.target, !.target = HookFile(SourceHook),
                        !.ran = Append(@, "install")]
         ELSE [c EXCEPT !.target = HookFile(SourceHook),
                        !.ran = Append(@, "install")]

\* uninstallHooks(): the files after the run
uninstallHooks(c) ==
    IF ~c.repo \/ ~c.target.exists \/ ~IncludesName(c.target.content)
    THEN [c EXCEPT !.ran = Append(@, "uninstall")]
    ELSE [c EXCEPT !.target = c.backup, !.backup = NoHookFile,
                   !.ran = Append(@, "uninstall")]

InstallHooks ==
    /\ cmd.pc = "hooks"
    /\ Len(cmd.ran) < MaxRuns
    /\ cmd' = installHooks(cmd)
    /\ UNCHANGED <<storeFile, backupFile, tmpFile, clock>>
    /\ NotCmd

UninstallHooks ==
    /\ cmd.pc = "hooks"
    /\ Len(cmd.ran) < MaxRuns
    /\ cmd' = uninstallHooks(cmd)
    /\ UNCHANGED <<storeFile, backupFile, tmpFile, clock>>
    /\ NotCmd

\* outside a repository there is no .git/hooks directory and so neither file
InitHooks ==
    /\ storeFile = Absent
    /\ backupFile = Absent
    /\ tmpFile = Absent
    /\ clock = 1
    /\ call = Call("none", NonePath, NoneScan, <<>>, NoneKey)
    /\ ret = RetVoid
    /\ proc = [p \in Procs |-> IdleProc]
    /\ test = IdleTest
    /\ scan = IdleScan
    /\ \E t \in {NoHookFile} \cup {HookFile(x) : x \in HookTexts},
          b \in {NoHookFile} \cup {HookFile(x) : x \in HookTexts},
          r \in BOOLEAN, src \in BOOLEAN :
          /\ ~r => (t = NoHookFile /\ b = NoHookFile)
          /\ cmd = [IdleHooks EXCEPT !.target = t, !.backup = b, !.repo = r,
                                     !.source = src, !.original = t]

NextHooks ==
    \/ InstallHooks
    \/ UninstallHooks

SpecHooks == InitHooks /\ [][NextHooks]_vars

(***************************************************************************)
(* What the claims speak of, stated apart from the operations above.       *)
(***************************************************************************)
\* a path resolved to absolute form and lower-cased
CanonicalPath(segs) == [i \in 1..Len(ResolveSegs(<<>>, segs)) |->
                            IF ResolveSegs(<<>>, segs)[i] = "P" THEN "p"
                            ELSE ResolveSegs(<<>>, segs)[i]]

\* the same for a path argument given in a working directory
CanonicalInput(a) ==
    CanonicalPath(IF a.p.abs THEN a.p.segs ELSE a.cwd \o a.p.segs)

\* the projects and banned keys a file's document holds
ProjectsOf(c) == IF c.k = "full" THEN c.d.projects ELSE <<>>
BannedOf(c) == IF c.k = "full" THEN c.d.bannedKeys ELSE <<>>

\* the projects of a list stored for a canonical path
StoredFor(projects, n) ==
    {i \in 1..Len(projects) : CanonicalPath(projects[i].path) = n}

FullKeysOf(keys) == {keys[j].fullKey : j \in 1..Len(keys)}

Tested(keys) == \E j \in 1..Len(keys) : keys[j].status # NullStatus

\* C1: while writeDatabase has not completed the rename of the temporary
\* file, and after the process stopped at such a step, the store file holds
\* what it held when the write began; and whenever the store file changes,
\* it is by the rename, to a complete document: never to a partial one.
C1_CrashSafe ==
    /\ [](\A p \in Procs :
            (\/ proc[p].pc \in BeforeRename
             \/ proc[p].pc = "idle" /\ proc[p].endedAt \in BeforeRename)
            => storeFile = proc[p].snap)
    /\ [][storeFile' # storeFile =>
            /\ storeFile'.k = "full"
            /\ \E p \in Procs : proc[p].pc = "w_rename" /\ storeFile' = Full(proc[p].db)]_vars

\* C1's case: the process stopped after the backup copy and the temp-file
\* write, before the rename; the store file holds the old document
C1_Witness ==
    /\ proc[1].pc = "idle"
    /\ proc[1].endedAt = "w_rename"
    /\ tmpFile = Full(proc[1].db)
    /\ storeFile.k = "full"
    /\ storeFile.d # proc[1].db
    /\ backupFile = storeFile
    /\ storeFile = proc[1].snap

\* C2: no two stored projects have paths that are equal after normalization
\* (resolved to absolute form, lower-cased), whatever calls were made.
C2_UniquePaths ==
    \A i, j \in 1..Len(ProjectsOf(storeFile)) :
        i # j => CanonicalPath(ProjectsOf(storeFile)[i].path)
                 # CanonicalPath(ProjectsOf(storeFile)[j].path)

\* C2's case: a save under the path form /P found the project first saved
\* as /p, beside a project of another directory, and left one project for it
C2_Witness ==
    /\ call.op = "saveProject"
    /\ call.path.p.segs = <<"P">>
    /\ Len(ProjectsOf(backupFile)) = 2
    /\ ProjectsOf(backupFile)[1].path = <<"p">>
    /\ Len(ProjectsOf(storeFile)) = 2
    /\ ProjectsOf(storeFile)[1].path = <<"P">>

\* C3: a step that leaves a project stored for a normalized path leaves its
\* id as it was; only deleteProject of the path and clearDatabase, which
\* remove the project, end an id.
C3_IdStable ==
    [][\A i \in 1..Len(ProjectsOf(storeFile)), j \in 1..Len(ProjectsOf(storeFile')) :
          CanonicalPath(ProjectsOf(storeFile)[i].path)
              = CanonicalPath(ProjectsOf(storeFile')[j].path)
          => ProjectsOf(storeFile)[i].id = ProjectsOf(storeFile')[j].id]_vars

\* C3's case: a project saved, its keys updated, and saved again under
\* another path form, with the id of the first save
C3_Witness ==
    /\ call.op = "saveProject"
    /\ clock = 3
    /\ Len(ProjectsOf(storeFile)) = 1
    /\ Len(ProjectsOf(backupFile)) = 1
    /\ Tested(ProjectsOf(backupFile)[1].keys)
    /\ ProjectsOf(backupFile)[1].path # ProjectsOf(storeFile)[1].path
    /\ ProjectsOf(backupFile)[1].id = ProjectsOf(storeFile)[1].id

\* C4: saveProject on a path that has a stored project leaves, for that
\* project, exactly the keys of scanResults.keysFound in their order, each
\* untested (status null, lastTested null, quotaInfo {} and no lastError),
\* with the totalFiles and the time of this save, and leaves every other
\* project as it was.
C4_SaveReplaces ==
    [][(call'.op = "saveProject" /\ ret'.kind # "throw") =>
        LET pre == ProjectsOf(storeFile)
            post == ProjectsOf(storeFile')
            sr == call'.scanResults
            X == StoredFor(pre, CanonicalInput(call'.path))
        IN X # {} =>
            /\ Len(post) = Len(pre)
            /\ \A i \in 1..Len(pre) :
                IF i \in X
                THEN /\ Len(post[i].keys) = Len(sr.keysFound)
                     /\ \A j \in 1..Len(sr.keysFound) :
                            /\ post[i].keys[j].fullKey = sr.keysFound[j].fullKey
                            /\ post[i].keys[j].service = sr.keysFound[j].service
                            /\ post[i].keys[j].status = NullStatus
                            /\ post[i].keys[j].lastTested = NullTime
                            /\ post[i].keys[j].quotaInfo = EmptyObject
                            /\ post[i].keys[j].lastError = NoError
                     /\ post[i].totalFiles = sr.totalFiles
                     /\ post[i].scannedAt = clock'
                ELSE post[i] = pre[i]]_vars

\* C4's case: a project whose keys had been tested is saved again with a key
\* found before, and the stored key is untested
C4_Witness ==
    /\ call.op = "saveProject"
    /\ Len(ProjectsOf(storeFile)) = 1
    /\ Len(ProjectsOf(backupFile)) = 1
    /\ Tested(ProjectsOf(backupFile)[1].keys)
    /\ FullKeysOf(ProjectsOf(backupFile)[1].keys)
           \cap FullKeysOf(ProjectsOf(storeFile)[1].keys) # {}
    /\ ~Tested(ProjectsOf(storeFile)[1].keys)
    /\ ProjectsOf(storeFile)[1].scannedAt = 3

\* C5: updateKeysStatus changes only key records of the project stored for
\* the path argument whose fullKey is the fullKey of some result; it returns
\* the number of results whose fullKey is in that project, and 0 with
\* nothing changed when no project is stored for the path.
C5_UpdateFrame ==
    [][(call'.op = "updateKeysStatus" /\ ret'.kind # "throw") =>
        LET pre == ProjectsOf(storeFile)
            post == ProjectsOf(storeFile')
            rs == call'.testResults
            X == StoredFor(pre, CanonicalInput(call'.path))
        IN /\ Len(post) = Len(pre)
           /\ X = {} => ret'.n = 0 /\ post = pre
           /\ \A i \in 1..Len(pre) :
                IF i \in X
                THEN /\ [post[i] EXCEPT !.keys = pre[i].keys] = pre[i]
                     /\ Len(post[i].keys) = Len(pre[i].keys)
                     /\ \A j \in 1..Len(pre[i].keys) :
                            (\A m \in 1..Len(rs) : rs[m].fullKey # pre[i].keys[j].fullKey)
                            => post[i].keys[j] = pre[i].keys[j]
                     /\ ret'.n = Cardinality({m \in 1..Len(rs) :
                                    rs[m].fullKey \in FullKeysOf(pre[i].keys)})
                ELSE post[i] = pre[i]]_vars

\* C5's case: two projects hold the same key; one result matches the key of
\* the named project and one matches none of its keys; 1 is returned
C5_Witness ==
    /\ call.op = "updateKeysStatus"
    /\ Len(call.testResults) = 2
    /\ ret.n = 1
    /\ Len(ProjectsOf(storeFile)) = 2
    /\ \E i, j \in 1..2 :
          /\ i # j
          /\ Tested(ProjectsOf(storeFile)[i].keys)
          /\ ~Tested(ProjectsOf(storeFile)[j].keys)
          /\ FullKeysOf(ProjectsOf(storeFile)[i].keys)
                 \cap FullKeysOf(ProjectsOf(storeFile)[j].keys) # {}

\* the last result of a list given for a key
LastResultFor(rs, fullKey) ==
    rs[CHOOSE m \in 1..Len(rs) :
          /\ rs[m].fullKey = fullKey
          /\ \A m2 \in 1..Len(rs) : rs[m2].fullKey = fullKey => m2 <= m]

\* C6: after updateKeysStatus or updateKeyStatus has merged results for a
\* stored key, the key record holds the status and quotaInfo of the most
\* recent result, and its lastError is that result's error: none when the
\* result carried no error.
C6_LatestResult ==
    call.op \in {"updateKeysStatus", "updateKeyStatus"} =>
        \A i \in StoredFor(ProjectsOf(storeFile), CanonicalInput(call.path)) :
            \A j \in 1..Len(ProjectsOf(storeFile)[i].keys) :
                LET key == ProjectsOf(storeFile)[i].keys[j] IN
                (\E m \in 1..Len(call.testResults) :
                    call.testResults[m].fullKey = key.fullKey)
                => LET last == LastResultFor(call.testResults, key.fullKey) IN
                   /\ key.status = last.status
                   /\ key.quotaInfo = last.details
                   /\ key.lastError = IF last.error = NullError THEN NoError
                                      ELSE last.error

\* the banned list holds no value twice
NoDuplicates(s) == \A i, j \in 1..Len(s) : i # j => s[i] # s[j]

\* C7: addBannedKey(k) returns true and appends k when k is not banned, and
\* returns false and changes nothing when it is; removeBannedKey(k) takes k
\* out; neither changes whether another key is banned; the list never holds
\* a value twice; and isBanned(k) says whether k is in the list.
C7_BannedSet ==
    [][LET pre == BannedOf(storeFile)
           post == BannedOf(storeFile')
           k == call'.keyValue
       IN /\ NoDuplicates(post)
          /\ call'.op = "addBannedKey" =>
                IF k \in Range(pre)
                THEN ret'.b = FALSE /\ post = pre
                ELSE ret'.b = TRUE /\ post = Append(pre, k)
          /\ call'.op = "removeBannedKey" =>
                /\ ret'.b = (k \in Range(pre))
                /\ Range(post) = Range(pre) \ {k}
          /\ call'.op = "isBanned" =>
                /\ ret'.b = (k \in Range(pre))
                /\ post = pre]_vars

\* C7's case: a key banned twice: the second call returns false and the list
\* holds one value
C7_Witness ==
    /\ call.op = "addBannedKey"
    /\ ret.b = FALSE
    /\ BannedOf(backupFile) = <<call.keyValue>>
    /\ BannedOf(storeFile) = <<call.keyValue>>

\* JSON.parse accepts the file's text
Parsable(c) == c.k \in {"full", "jsonnull", "scalar"}

EmptyDatabase(db) == db.projects = <<>> /\ db.bannedKeys = <<>>

\* what C8 says of process p's call of initDatabase
InitDatabaseAsClaimed(p) ==
    LET q == proc[p] IN
    q.op \in {"isBanned", "addBannedKey", "removeBannedKey"} =>
        /\ ~(q.pc = "idle" /\ q.endedAt = "read" /\ q.ret = RetThrow)
        /\ q.pc = "op" =>
            /\ q.rdStore.k = "absent" =>
                  EmptyDatabase(q.db) /\ storeFile = Full(q.db)
            /\ (q.rdStore.k # "absent" /\ ~Parsable(q.rdStore)
                    /\ q.rdBackup.k = "full") =>
                  /\ q.db.projects = q.rdBackup.d.projects
                  /\ q.db.bannedKeys = q.rdBackup.d.bannedKeys
            /\ (q.rdStore.k # "absent" /\ ~Parsable(q.rdStore)
                    /\ ~Parsable(q.rdBackup)) =>
                  EmptyDatabase(q.db)

\* C8: initDatabase never fails because of the store file's content: with
\* the store file absent it writes and returns an empty database; with the
\* store file unparsable and the backup parsable it returns the backup's
\* content; with the store file unparsable and the backup missing or
\* unparsable it returns a fresh empty database; it never throws.
C8_InitNeverFails == \A p \in Procs : InitDatabaseAsClaimed(p)

\* the same, where the file read holds no JSON number, string or boolean
C8_ExceptScalars ==
    \A p \in Procs :
        (proc[p].rdStore.k # "scalar"
            /\ ~(~Parsable(proc[p].rdStore) /\ proc[p].rdBackup.k = "scalar"))
        => InitDatabaseAsClaimed(p)

\* the checkers that call the network
NetworkServices ==
    {"OpenAI", "Groq", "GitHub", "Stripe", "Google/Firebase", "Anthropic",
     "Hugging Face"}

\* the status C9 gives for a service and the first request's final code
ClaimedStatus(sv, code) ==
    CASE code = 200 -> "VALID"
      [] code = 400 /\ sv = "Anthropic" -> "VALID"
      [] code = 401 -> "INVALID"
      [] code = 403 -> "EXPIRED"
      [] code = 429 -> "RATE_LIMITED"
      [] OTHER -> "ERROR"

\* the result of a key has just been added to results, and the checker's
\* first request ended with an HTTP response
ResultOfResponse ==
    /\ test.pc \in {"delay", "loop", "done"}
    /\ test.results # <<>>
    /\ test.results[Len(test.results)].service \in NetworkServices
    /\ test.first.kind = "response"

\* the 200 response's list field (data, orgs) is not a list, in a checker
\* that calls slice or map on it
BodyUnreadable ==
    /\ test.first.status = 200
    /\ test.first.body = "odd"
    /\ test.results[Len(test.results)].service \in {"OpenAI", "Groq", "Hugging Face"}

\* C9 as stated: for every checker that calls the network the result status
\* is determined by the final HTTP status code of the first request: 200
\* VALID, 401 INVALID, 403 EXPIRED, 429 RATE_LIMITED, any other code ERROR,
\* except that the Anthropic checker also gives VALID for 400.
C9_StatusFromCode ==
    ResultOfResponse =>
        LET r == test.results[Len(test.results)]
        IN r.status = ClaimedStatus(r.service, test.first.status)

\* C9 amended: the same, unless the checker fails to read the body of a 200
\* response (OpenAI, Groq, Hugging Face: the list field is not a list), in
\* which case the status is ERROR and the error is set.
C9_StatusFromCodeUnlessBodyThrows ==
    ResultOfResponse =>
        LET r == test.results[Len(test.results)]
        IN IF BodyUnreadable
           THEN r.status = "ERROR" /\ r.error # NullError
           ELSE r.status = ClaimedStatus(r.service, test.first.status)

\* C9's case: two keys tested, a Stripe key answered 403 after a 429 and an
\* Anthropic key answered 400
C9_Witness ==
    /\ test.pc = "done"
    /\ Len(test.results) = 2
    /\ test.results[1].service = "Stripe"
    /\ test.results[1].status = "EXPIRED"
    /\ test.results[2].service = "Anthropic"
    /\ test.results[2].status = "VALID"
    /\ test.first = Response(400, "usual")
    /\ test.attempts = 2

\* the running requestWithRetry call has returned or thrown
Returned == test.pc \in {"response", "thrown"}

\* C10: one requestWithRetry call makes at most 4 HTTP attempts and always
\* terminates; it retries only on 429 or a connection reset, and then
\* always while fewer than 3 retries were made; it waits 1000, 2000 and
\* 4000 ms before the first, second and third retry; after the third retry
\* it returns the last response or rethrows the last error; a final 429 of
\* the checker's request gives RATE_LIMITED and a rethrown error gives ERROR.
C10_RetryBounded ==
    /\ [](/\ test.attempts <= 4
          /\ Len(test.waits) <= 3
          /\ \A n \in 1..Len(test.waits) : test.waits[n] = <<1000, 2000, 4000>>[n]
          /\ test.pc \in {"inflight", "response", "thrown"} =>
                Len(test.waits) = test.attempts - 1
          /\ (test.pc \in {"delay", "loop", "done"} /\ test.results # <<>>) =>
                LET r == test.results[Len(test.results)] IN
                /\ (test.first.kind = "response" /\ test.first.status = 429) =>
                      r.status = "RATE_LIMITED"
                /\ test.first.kind = "error" => r.status = "ERROR")
    /\ [][test.pc = "inflight" =>
            LET retriable ==
                    \/ test'.last.kind = "response" /\ test'.last.status = 429
                    \/ test'.last.kind = "error" /\ test'.last.code = "ECONNRESET"
            IN /\ test'.pc = "backoff" <=> (retriable /\ test.attempts < 4)
               /\ test'.pc # "backoff" =>
                     /\ test'.pc = IF test'.last.kind = "response" THEN "response"
                                   ELSE "thrown"
                     /\ test'.attempts = test.attempts]_vars
    /\ (test.pc = "request" ~> Returned)

\* C10's case: a call that met a 429, a connection reset and a 429, waited
\* 1000, 2000 and 4000 ms, and returned the 429 of its fourth attempt, which
\* the checker reports as RATE_LIMITED
C10_Witness ==
    /\ test.pc = "done"
    /\ test.attempts = 4
    /\ test.waits = <<1000, 2000, 4000>>
    /\ test.first = Response(429, "usual")
    /\ test.results[Len(test.results)].status = "RATE_LIMITED"

\* AKIA followed by exactly 16 upper-case letters or digits
AkiaAnd16(key) ==
    LET tail == SubSeq(key, 5, Len(key))
    IN /\ Len(key) >= 4
       /\ SubSeq(key, 1, 4) = <<"A", "K", "I", "A">>
       /\ Len(tail) = 16
       /\ Range(tail) \subseteq UpperOrDigit

\* testKeys is at a key of service AWS
AtAwsKey ==
    /\ test.pc # "idle"
    /\ test.i <= Len(test.keysArray)
    /\ test.keysArray[test.i].service = "AWS"

\* C11: testing an AWS key issues no outbound request: from the loop's head
\* the result is added in one step, and testKeys is never in
\* requestWithRetry at an AWS key; the result is VALID when the key is AKIA
\* followed by exactly 16 upper-case letters or digits and INVALID otherwise.
C11_AwsNoRequest ==
    /\ [](AtAwsKey => test.pc \in {"loop", "delay"})
    /\ [][(AtAwsKey /\ test.pc = "loop") =>
            /\ test'.pc \in {"delay", "loop"}
            /\ test'.attempts = test.attempts
            /\ Len(test'.results) = Len(test.results) + 1
            /\ LET r == test'.results[Len(test'.results)] IN
               /\ r.service = "AWS"
               /\ r.fullKey = test.keysArray[test.i].fullKey
               /\ r.status = IF AkiaAnd16(r.fullKey) THEN "VALID" ELSE "INVALID"]_vars

\* C11's case: a key one character too long was found INVALID and a key of
\* the format VALID
C11_Witness ==
    /\ test.pc = "done"
    /\ Len(test.results) = 2
    /\ test.results[1].service = "AWS" /\ Len(test.results[1].fullKey) = 21
    /\ test.results[1].status = "INVALID"
    /\ test.results[2].service = "AWS" /\ test.results[2].fullKey = AwsKeyText
    /\ test.results[2].status = "VALID"

RECURSIVE SequentialRun(_)
\* what a strictly sequential run over n keys does: each key begun and
\* ended in turn, a 500 ms delay between two keys, none after the last
SequentialRun(n) ==
    IF n = 0 THEN <<>>
    ELSE IF n = 1 THEN <<Event("start", 1), Event("end", 1)>>
    ELSE SequentialRun(n - 1) \o <<Event("delay", 500), Event("start", n), Event("end", n)>>

IsPrefix(s, t) == Len(s) <= Len(t) /\ SubSeq(t, 1, Len(s)) = s

\* testKeys is inside a checker's requestWithRetry call
InRequest == test.pc \in {"request", "inflight", "backoff", "response", "thrown"}

\* C12: testKeys processes the keys strictly one after another in input
\* order: at most one request is in flight; what it does is at every moment
\* the beginning of the sequential run (key n+1 begins only after key n
\* ended and a 500 ms delay elapsed); a request is made only for the key
\* begun last and not ended; when testKeys returns the run is complete, with
\* no delay after the last key.
C12_Sequential ==
    /\ test.flying <= 1
    /\ IsPrefix(test.events, SequentialRun(Len(test.keysArray)))
    /\ InRequest =>
          /\ test.events # <<>>
          /\ test.events[Len(test.events)] = Event("start", test.i)
    /\ test.flying = 1 => test.pc = "inflight"
    /\ test.pc = "done" => test.events = SequentialRun(Len(test.keysArray))

\* C12's case: two keys tested over the network, the delay between them
\* awaited, and the second key's request in flight
C12_Witness ==
    /\ Len(test.keysArray) = 2
    /\ test.keysArray[1].service = "GitHub"
    /\ test.keysArray[2].service = "Groq"
    /\ test.pc = "inflight"
    /\ test.i = 2
    /\ test.flying = 1
    /\ test.paused = 500
    /\ test.events = <<Event("start", 1), Event("end", 1), Event("delay", 500),
                       Event("start", 2)>>

\* the services with a checker registered
Registered ==
    {"OpenAI", "Groq", "GitHub", "Stripe", "Google/Firebase", "AWS", "Anthropic",
     "Hugging Face"}

\* result j is the result of input key j; a key whose service has no
\* registered checker has status ERROR and the 'No tester available' message
ResultAsClaimed(j) ==
    LET k == test.keysArray[j]
        r == test.results[j]
    IN /\ r.service = k.service
       /\ r.fullKey = k.fullKey
       /\ k.service \notin Registered =>
             /\ r.status = "ERROR"
             /\ r.error = NoTesterMessage(k.service)

\* C13: testKeys returns exactly one result per input key, in input order;
\* a key whose checker throws gets ERROR with the exception's message, a key
\* whose service has no registered checker gets ERROR with the message 'No
\* tester available for service: <service>', and later keys are still tested.
C13_OneResultPerKey ==
    /\ Len(test.results) <= Len(test.keysArray)
    /\ \A j \in 1..Len(test.results) : ResultAsClaimed(j)
    /\ test.pc = "done" => Len(test.results) = Len(test.keysArray)

\* the same, for input lists whose service names are not names of
\* Object.prototype
C13_ExceptInherited ==
    (\A j \in 1..Len(test.keysArray) :
        test.keysArray[j].service \notin {"constructor", "hasOwnProperty"})
    => C13_OneResultPerKey

\* the result added last, once its key's checker has returned
LastResult == test.results[Len(test.results)]

HasLastResult == test.pc \in {"delay", "loop", "done"} /\ test.results # <<>>

\* C14: a result's error is non-null only when its status is ERROR or the
\* outbound request itself failed: a result with status VALID, INVALID,
\* EXPIRED or RATE_LIMITED obtained without a request failure has a null
\* error.
C14_ErrorOnlyOnFailure ==
    HasLastResult =>
        (LastResult.error \notin {NullError, Undefined}
            => (LastResult.status = "ERROR" \/ test.first.kind = "error"))

\* the same, for the results of every checker but the AWS checker
C14_ExceptAws ==
    (HasLastResult /\ LastResult.service # "AWS") => C14_ErrorOnlyOnFailure

\* C15: every result testKeys returns has a status that is one of VALID,
\* INVALID, EXPIRED, RATE_LIMITED, ERROR and a details.testedAt value, on
\* every path: success, HTTP failure status, thrown exception, exhausted
\* retries and missing checker.
C15_StatusAndTestedAt ==
    \A j \in 1..Len(test.results) :
        /\ test.results[j].status \in {"VALID", "INVALID", "EXPIRED", "RATE_LIMITED", "ERROR"}
        /\ test.results[j].details.testedAt > 0

\* the same, for input lists whose service names are not names of
\* Object.prototype
C15_ExceptInherited ==
    (\A j \in 1..Len(test.keysArray) :
        test.keysArray[j].service \notin {"constructor", "hasOwnProperty"})
    => C15_StatusAndTestedAt

\* the files scanDirectory reads: the listing without the ignored files
Scanned ==
    SelectSeqBy(scan.listing,
                {f \in Range(scan.listing) :
                    ~shouldIgnoreFile(ScanRoot \o f.rel,
                                      DEFAULT_IGNORE_DIRS \cup DEFAULT_IGNORE_FILES)})

\* file n of the scanned files was read and holds the key k at position q
Occurs(k, n, q) ==
    /\ n \in 1..Len(Scanned)
    /\ Scanned[n].read.ok
    /\ q \in 1..Len(Scanned[n].read.text)
    /\ Scanned[n].read.text[q] = k

\* the first place of key k in file-processing order: the first file that
\* holds it, and the first position in that file (one raw value matches one
\* pattern, so inside a file the order is the order of positions)
FirstPlace(k, n, q) ==
    /\ Occurs(k, n, q)
    /\ \A m \in 1..Len(Scanned) :
          \A r \in 1..Len(Scanned[m].read.text) :
              Occurs(k, m, r) => (n < m \/ (n = m /\ q <= r))

ScanReturned == scan.pc = "done" /\ scan.globbed

\* C16: keysFound never holds two entries with the same fullKey, and the
\* entry kept for a raw value is its first one in file-processing order
\* (order of the file list, then position inside the file), whatever the
\* order in which the reads of a batch completed.
C16_FirstOccurrenceKept ==
    ScanReturned =>
        LET found == scan.result.keysFound IN
        /\ \A a, b \in 1..Len(found) : a # b => found[a].fullKey # found[b].fullKey
        /\ \A a \in 1..Len(found) :
              \E n \in 1..Len(Scanned) :
                  /\ FirstPlace(found[a].fullKey, n, found[a].pos)
                  /\ found[a].filePath = Scanned[n].rel
        /\ \A k \in Keys :
              (\E n \in 1..Len(Scanned) :
                  \E q \in 1..Len(Scanned[n].read.text) : Occurs(k, n, q))
                  => \E a \in 1..Len(found) : found[a].fullKey = k

\* C16's case: two files of one batch hold the same key, the read of the
\* second completed first, and the entry kept is the first file's
C16_Witness ==
    /\ ScanReturned
    /\ Len(scan.files) = 2
    /\ scan.completed = <<2, 1>>
    /\ scan.files[1].read.ok /\ scan.files[1].read.text = <<"k2", "k1">>
    /\ scan.files[2].read.ok /\ scan.files[2].read.text = <<"k1", "k1">>
    /\ Len(scan.result.keysFound) = 2
    /\ scan.result.keysFound[1].fullKey = "k1"
    /\ scan.result.keysFound[1].filePath = scan.files[1].rel

Ended(p) ==
    /\ proc[p].pc = "idle"
    /\ proc[p].endedAt \in {"returned", "rename_failed", "op"}
    /\ proc[p].fd # "none"

C19_OneWholeDocument ==
    /\ storeFile.k \in {"absent", "full"}
    /\ (\A p \in Procs : Ended(p))
          => \E p \in Procs : storeFile = Full(proc[p].db)

\* with one process writing at a time the store file is always whole
C19_ExceptOverlap ==
    (\A p \in Procs : ~proc[p].raced /\ proc[p].fd \in {"none", "tmp"}
                      /\ proc[p].endedAt # "rename_failed")
       => storeFile.k \in {"absent", "full"}


(***************************************************************************)
(* C20  When the scan command runs with the test option and finds at least *)
(* one key, then after scanDirectory, saveProject, testKeys and            *)
(* updateKeysStatus every key stored for the project has the status of its *)
(* test result and a lastTested that is not null; a key whose check ended  *)
(* with HTTP 401 is stored as INVALID.                                     *)
(***************************************************************************)
\* the keys the store file holds for the command's directory
StoredKeysOf(c) ==
    LET projects == storeFile.d.projects
        mine == {n \in 1..Len(projects) :
                    ToLowerCase(projects[n].path)
                        = ToLowerCase(PathResolve(c.dir.cwd, c.dir.p))}
    IN UNION {Range(projects[n].keys) : n \in mine}

C20_StoredAsTested ==
    cmd.pc = "updated" =>
        /\ storeFile.k = "full"
        /\ StoredKeysOf(cmd) # {}
        /\ \A key \in StoredKeysOf(cmd) :
              /\ key.lastTested # NullTime
              /\ \E j \in 1..Len(cmd.testResults) :
                    /\ cmd.testResults[j].fullKey = key.fullKey
                    /\ cmd.testResults[j].status = key.status
                    /\ (cmd.outcomes[j].kind = "response"
                        /\ cmd.outcomes[j].status = 401) => key.status = "INVALID"

\* the results testKeys gathers step by step are those CheckerResult gives
C20_ResultsAgree ==
    \A j \in 1..Len(test.results) :
        \E o \in Outcomes \cup {NoOutcome}, u \in BOOLEAN, now \in 0..(MaxBatch + 1) :
            test.results[j] =
                Pushed(test.keysArray[j],
                       CheckerResult(test.keysArray[j].service,
                                     test.keysArray[j].fullKey, o, u, now))

\* the command has stored the results of two keys, one of them answered 401
\* and found INVALID, in the place of a project saved earlier
C20_Witness ==
    /\ cmd.pc = "updated"
    /\ Cardinality(StoredKeysOf(cmd)) = 2
    /\ \E key \in StoredKeysOf(cmd) : key.status = "INVALID"
    /\ \E key \in StoredKeysOf(cmd) : key.status = "VALID" /\ key.lastError = NoError
    /\ Len(storeFile.d.projects) = 1
    /\ storeFile.d.projects[1].id = EarlierProject.id
    /\ storeFile.d.projects[1].scannedAt > EarlierProject.scannedAt


(***************************************************************************)
(* C21  After every successful run of the scan command on a directory that *)
(* already has a stored project, the stored project's key list is exactly  *)
(* the key list the run found, also when the run found no key (the stored  *)
(* key list is then empty).                                                *)
(***************************************************************************)
\* the run ended with exit code 0
RanWell == cmd.pc \in {"exit", "updated"} /\ cmd.code = "SUCCESS"

\* the store is the one that held the earlier project, and the command's
\* directory is that project's
HadProject ==
    /\ storeFile.k = "full"
    /\ storeFile.d.createdAt = EarlierDoc.createdAt
    /\ ToLowerCase(PathResolve(cmd.dir.cwd, cmd.dir.p)) = ToLowerCase(EarlierProject.path)

\* the (service, fullKey) list of key records or of scanner key objects
KeyListOf(keys) ==
    [j \in 1..Len(keys) |-> <<keys[j].service, keys[j].fullKey>>]

\* the key lists stored for the command's directory
StoredKeyLists ==
    {KeyListOf(storeFile.d.projects[n].keys) :
        n \in {m \in 1..Len(storeFile.d.projects) :
                 ToLowerCase(storeFile.d.projects[m].path)
                     = ToLowerCase(PathResolve(cmd.dir.cwd, cmd.dir.p))}}

C21_RescanReplaces ==
    (RanWell /\ HadProject) =>
        StoredKeyLists = {KeyListOf(cmd.scanResults.keysFound)}

\* the claim for the runs that found a key
C21_ExceptNoKeys ==
    (RanWell /\ HadProject /\ cmd.scanResults.keysFound # <<>>) =>
        StoredKeyLists = {KeyListOf(cmd.scanResults.keysFound)}


(***************************************************************************)
(* C22  The clean command removes from the store exactly the key records   *)
(* whose status is INVALID or EXPIRED and leaves every other stored key    *)
(* record as it was (status, lastTested, quotaInfo), and leaves each       *)
(* project's id as it was.                                                 *)
(***************************************************************************)
\* the key records of a list that are neither INVALID nor EXPIRED, in order
Remaining(keys) ==
    SelectSeqBy(keys, {k \in Range(keys) : k.status \notin {"INVALID", "EXPIRED"}})

\* the clean command has ended after its removing loop; cmd.projects are the
\* projects as they were stored when it began
Cleaned == cmd.pc = "cleaned"

C22_CleanRemovesOnly ==
    Cleaned =>
        /\ storeFile.k = "full"
        /\ Len(storeFile.d.projects) = Len(cmd.projects)
        /\ \A n \in 1..Len(cmd.projects) :
              /\ storeFile.d.projects[n].id = cmd.projects[n].id
              /\ storeFile.d.projects[n].keys = Remaining(cmd.projects[n].keys)

\* the claim for the keys' identity alone: the keys left are those that were
\* neither INVALID nor EXPIRED, in their order, and the ids are kept
C22_ExceptKeyState ==
    Cleaned =>
        /\ storeFile.k = "full"
        /\ Len(storeFile.d.projects) = Len(cmd.projects)
        /\ \A n \in 1..Len(cmd.projects) :
              /\ storeFile.d.projects[n].id = cmd.projects[n].id
              /\ KeyListOf(storeFile.d.projects[n].keys)
                    = KeyListOf(Remaining(cmd.projects[n].keys))


(***************************************************************************)
(* C23  The scan command exits with a non-zero code when the scan finds at *)
(* least one key and with code 0 when it finds none.                       *)
(***************************************************************************)
\* the run has ended; SUCCESS is exit code 0, ERROR is 1
Exited == cmd.pc \in {"exit", "updated"}

C23_ExitCodeTellsKeys ==
    Exited => (cmd.code = "SUCCESS" <=> cmd.scanResults.keysFound = <<>>)

\* the half of the claim about scans that find no key
C23_ExceptKeysFound ==
    (Exited /\ cmd.scanResults.keysFound = <<>>) => cmd.code = "SUCCESS"


(***************************************************************************)
(* C25  maskKey(x) is len(x) asterisks when len(x) <= 8; when len(x) > 8   *)
(* it is the first 4 characters of x, the marker ***...*** and the last 4  *)
(* characters of x, so that the characters of x between them have no       *)
(* effect on the result.                                                   *)
(***************************************************************************)
\* out is what the claim gives for x
MaskedAsClaimed(x, out) ==
    IF Len(x) <= 8
    THEN Len(out) = Len(x) /\ \A n \in 1..Len(out) : out[n] = "*"
    ELSE /\ Len(out) = 17
         /\ \A n \in 1..4 : out[n] = x[n] /\ out[13 + n] = x[Len(x) - 4 + n]
         /\ \A n \in {5, 6, 7, 11, 12, 13} : out[n] = "*"
         /\ \A n \in {8, 9, 10} : out[n] = "."

C25_MaskShape ==
    cmd.pc = "masked" =>
        /\ MaskedAsClaimed(cmd.x, cmd.outX)
        /\ MaskedAsClaimed(cmd.y, cmd.outY)
        /\ cmd.outX = cmd.outY

\* two keys of ten characters that differ in the middle were masked alike
C25_Witness ==
    /\ cmd.pc = "masked"
    /\ Len(cmd.x) = 10
    /\ cmd.x # cmd.y
    /\ cmd.outX = cmd.outY


(***************************************************************************)
(* C24  The file the export command writes (json or csv) holds the full    *)
(* key of a stored key only when --include-full-keys was given and the     *)
(* prompt was confirmed; in every other run that writes a file no key's    *)
(* full key is in it, and the masked key is.                               *)
(***************************************************************************)
\* text b occurs in text a
Within(a, b) ==
    \E n \in 0..(Len(a) - Len(b)) : \A m \in 1..Len(b) : a[n + m] = b[m]

\* the texts of the file written
WrittenTexts ==
    UNION {{cmd.file.rows[r].texts[c][2] : c \in 1..Len(cmd.file.rows[r].texts)} :
              r \in 1..Len(cmd.file.rows)}

\* the full keys the store holds
StoredFullKeys ==
    IF storeFile.k # "full" THEN {}
    ELSE UNION {{storeFile.d.projects[n].keys[j].fullKey :
                    j \in 1..Len(storeFile.d.projects[n].keys)} :
                  n \in 1..Len(storeFile.d.projects)}

\* the first four characters, ***...*** and the last four
MaskOf(x) ==
    SubSeq(x, 1, 4) \o <<"*", "*", "*", ".", ".", ".", "*", "*", "*">>
        \o SubSeq(x, Len(x) - 3, Len(x))

Asked == cmd.includeFullKeys /\ cmd.confirmed

C24_FullKeysOnlyWhenAsked ==
    cmd.pc = "written" =>
        /\ (\E x \in StoredFullKeys, t \in WrittenTexts : Within(t, x)) => Asked
        /\ ~Asked => \A x \in StoredFullKeys : MaskOf(x) \in WrittenTexts
        /\ Asked => \A x \in StoredFullKeys : x \in WrittenTexts

\* a JSON file of two keys was written (--format JSON), without the full
\* keys the store holds
C24_Witness ==
    /\ cmd.pc = "written"
    /\ ~cmd.includeFullKeys
    /\ cmd.format = "JSON"
    /\ Cardinality(StoredFullKeys) = 2
    /\ Len(cmd.file.rows) >= 2


(***************************************************************************)
(* C26  During scanDirectory at most BATCH_SIZE file reads are in flight   *)
(* at any moment, the reads of a batch are issued together, and no read of *)
(* the next batch is started before every read of the batch has completed. *)
(***************************************************************************)
\* the files of the batch that begins at place i
ClaimedBatch(i) == {n \in 1..Len(scan.files) : i <= n /\ n < i + BatchSize}

C26_BoundedBatches ==
    /\ [](/\ Cardinality(scan.pending) <= BatchSize
          /\ scan.pending \subseteq ClaimedBatch(scan.i)
          /\ scan.pc = "reading" =>
                scan.pending \cup Range(scan.completed) = ClaimedBatch(scan.i))
    /\ [][(scan'.pending \ scan.pending # {}) =>
             /\ scan.pending = {}
             /\ scan'.pending = ClaimedBatch(scan.i)]_vars

\* the reads of the second batch are in flight
C26_Witness ==
    /\ scan.pc = "reading"
    /\ scan.i > BatchSize
    /\ scan.pending # {}


(***************************************************************************)
(* C27  If at least one of the store file and the backup file holds a      *)
(* parsable database when a writeDatabase call begins, then at every step  *)
(* of the call, and after the process stopped at any step, at least one of *)
(* the two files still holds a parsable database.                          *)
(***************************************************************************)
\* the file holds the whole text of a database
HoldsDatabase(c) == c.k = "full"

\* the process is inside writeDatabase, or stopped inside it
InWrite(p) ==
    LET steps == {"w_access", "w_copying", "w_write", "w_writing", "w_rename"} IN
    \/ proc[p].pc \in steps
    \/ proc[p].pc = "idle" /\ proc[p].endedAt \in steps

C27_OneCopySurvives ==
    \A p \in Writers :
        (InWrite(p) /\ (HoldsDatabase(proc[p].snap) \/ HoldsDatabase(proc[p].snapBackup)))
            => (HoldsDatabase(storeFile) \/ HoldsDatabase(backupFile))

\* the claim for the calls that began with a store file holding a database
C27_ExceptCorruptStore ==
    \A p \in Writers :
        (InWrite(p) /\ HoldsDatabase(proc[p].snap))
            => (HoldsDatabase(storeFile) \/ HoldsDatabase(backupFile))


\* the store file holds a parsable document of the current version
CurrentStore == storeFile.k = "full" /\ storeFile.d.version = DB_VERSION

\* the operations that only read the database
Readers ==
    {"getProject", "getAllProjects", "isBanned", "getBannedKeys",
     "getDatabaseStats"}

\* the call the step makes is one that reports having changed nothing: a
\* reader, a removal or a ban that returns false, an update for a path no
\* stored project has
ChangesNothing ==
    \/ call'.op \in Readers
    \/ /\ call'.op \in {"deleteProject", "removeBannedKey", "addBannedKey"}
       /\ ret' = RetBool(FALSE)
    \/ /\ call'.op = "updateKeysStatus"
       /\ StoredFor(ProjectsOf(storeFile), CanonicalInput(call'.path)) = {}

\* C28: with a parsable store file of the current version, the reading
\* operations, a deleteProject, removeBannedKey or addBannedKey that
\* returns false and an updateKeysStatus that finds no project leave the
\* store file and the backup file as they were
C28_ReadersLeaveFiles ==
    [][(clock' = clock + 1 /\ CurrentStore /\ ChangesNothing)
           => (storeFile' = storeFile /\ backupFile' = backupFile)]_vars

\* a deleteProject that returned false was made on a store file holding a
\* project and a banned key, an earlier write having left a backup
C28_Witness ==
    /\ CurrentStore
    /\ backupFile.k = "full"
    /\ storeFile.d.projects # <<>>
    /\ storeFile.d.bannedKeys # <<>>
    /\ call.op = "deleteProject"
    /\ ret = RetBool(FALSE)

\* the names the default ignore patterns match as a directory of a path
IgnoredNames ==
    DEFAULT_IGNORE_DIRS \cup DEFAULT_IGNORE_FILES \cup {"rebuild"}

\* no directory of the root's own path has such a name
PlainRoot(root) == \A n \in 1..Len(root) : root[n] \notin IgnoredNames

\* the tree has been scanned at both roots
ScannedBoth == cmd.pc = "scannedB"

\* C29: the same tree scanned at two roots gives the same totalFiles and
\* the same keysFound, whatever the names of the directories in the roots'
\* own paths
C29_RootIndependent ==
    ScannedBoth =>
        /\ cmd.resultA.totalFiles = cmd.resultB.totalFiles
        /\ cmd.resultA.keysFound = cmd.resultB.keysFound

\* the same, for roots whose own paths hold no ignored name
C29_ExceptIgnoredRoot ==
    (ScannedBoth /\ PlainRoot(cmd.rootA) /\ PlainRoot(cmd.rootB))
        => /\ cmd.resultA.totalFiles = cmd.resultB.totalFiles
           /\ cmd.resultA.keysFound = cmd.resultB.keysFound

\* a tree with a key in it was scanned at two plain roots
C29_PlainWitness ==
    /\ ScannedBoth
    /\ PlainRoot(cmd.rootA)
    /\ PlainRoot(cmd.rootB)
    /\ cmd.resultA.keysFound # <<>>

\* the runs so far are one or more installs that returned, then one
\* uninstall
InstalledThenUninstalled ==
    /\ Len(cmd.ran) >= 2
    /\ cmd.ran[Len(cmd.ran)] = "uninstall"
    /\ \A n \in 1..(Len(cmd.ran) - 1) : cmd.ran[n] = "install"

\* a pre-commit hook of another tool, without the name, was there before
\* the first run
HadOtherHook ==
    cmd.original.exists /\ "APIgraveyard" \notin Range(cmd.original.content)

====
